---- MODULE Spec2Model ----
(***************************************************************************)
(* Model of the resilience core of terralense-registry-client:             *)
(*   registry/ratelimiter.go  - the token bucket RateLimiter               *)
(*   registry/client.go       - Client.request / Client.do and the retry   *)
(*                              policy installed by newDefaultHTTPClient   *)
(*   registry/errors.go       - the error taxonomy                         *)
(*                                                                         *)
(* Time is discrete.  One Tick is one unit of the wall clock.  The limiter *)
(* only ever reads now - lastRefill, so the model keeps that difference    *)
(* (elapsed), saturated at refillPeriod: every value >= refillPeriod takes *)
(* the same branch in refill and in timeUntilNextToken.  A timer is the    *)
(* time left until it fires.                                               *)
(***************************************************************************)
EXTENDS Integers, Sequences, FiniteSets, TLC

(***************************************************************************)
(* Bounds of the model (configuration values chosen small).                *)
(***************************************************************************)
\* ClientConfig.RateLimitRequests: maxTokens and refillRate of the limiter
MaxRequests == 2
\* ClientConfig.RateLimitPeriod, in ticks
RefillPeriod == 4
\* ClientConfig.MaxRetries (retryClient.RetryMax)
MaxRetries == 2
\* ClientConfig.RetryWaitMin and RetryWaitMax, in ticks
RetryWaitMin == 2
RetryWaitMax == 3

\* The concurrent callers.  Every caller can call the limiter directly
\* (Client.GetRateLimiter); the callers in Requesters also issue requests.
Callers == {"c1", "c2"}
Requesters == {"c1"}

(***************************************************************************)
(* RateLimiter: pure parts.                                                *)
(***************************************************************************)
\* NewRateLimiter: tokens = maxTokens = refillRate = maxRequests
maxTokens == MaxRequests
refillRate == MaxRequests
refillPeriod == RefillPeriod

min(a, b) == IF a < b THEN a ELSE b

(***************************************************************************)
(* float64 arithmetic of refill.  A positive float64 is a record of its    *)
(* 53-bit significand, written as three limbs of 17, 18 and 18 bits (the   *)
(* first bit of the first limb is 1), and the exponent of its last bit:    *)
(* the value is (sig[1] * 2^36 + sig[2] * 2^18 + sig[3]) * 2^exp.          *)
(* Operations round to nearest, ties to even, as IEEE 754 binary64 does.   *)
(* The operands are integers below MaxOperand, which float64 holds exactly *)
(* and which keep every intermediate value below 2^31.                     *)
(***************************************************************************)
SignificandBits == 53
LimbBits == 18
Limb == 2 ^ LimbBits
MaxOperand == 2 ^ 12

\* the number of bits of n > 0
BitLen(n) == CHOOSE b \in 1..30 : 2 ^ (b - 1) <= n /\ n < 2 ^ b

\* the float64 of the significand sig with one unit added to its last bit
NextUp(sig, exp) ==
    IF sig[3] + 1 < Limb THEN [sig |-> <<sig[1], sig[2], sig[3] + 1>>, exp |-> exp]
    ELSE IF sig[2] + 1 < Limb THEN [sig |-> <<sig[1], sig[2] + 1, 0>>, exp |-> exp]
    ELSE IF sig[1] + 1 < Limb \div 2 THEN [sig |-> <<sig[1] + 1, 0, 0>>, exp |-> exp]
    ELSE [sig |-> <<Limb \div 4, 0, 0>>, exp |-> exp + 1]

\* round to nearest, ties to even: half is the first bit left out, more
\* says whether a 1 follows it
RoundToFloat64(sig, exp, half, more) ==
    IF half = 1 /\ (more \/ sig[3] % 2 = 1) THEN NextUp(sig, exp)
    ELSE [sig |-> sig, exp |-> exp]

\* float64(x) / float64(y) for integers 0 < x < y < MaxOperand
float64Div(x, y) ==
    LET \* the quotient is 0.0..01..., zeros zero bits after the point
        zeros == CHOOSE z \in 0..(LimbBits - 6) : x * 2 ^ z < y /\ y <= x * 2 ^ (z + 1)
        r0 == x * 2 ^ zeros
        \* long division, a limb of the quotient at a time
        d1 == (r0 * (Limb \div 2)) \div y
        r1 == (r0 * (Limb \div 2)) % y
        d2 == (r1 * Limb) \div y
        r2 == (r1 * Limb) % y
        d3 == (r2 * Limb) \div y
        r3 == (r2 * Limb) % y
    IN  RoundToFloat64(<<d1, d2, d3>>, 0 - (zeros + SignificandBits),
                       (2 * r3) \div y, (2 * r3) % y # 0)

\* the element of a singleton set: The({e(x) : x \in {v}}) is e(v), with v
\* computed once
The(S) == CHOOSE x \in S : TRUE

\* the limbs of sig * n, the first one with the bits that exceed a limb
Product(sig, n) ==
    LET t3 == sig[3] * n
        t2 == sig[2] * n + t3 \div Limb
        t1 == sig[1] * n + t2 \div Limb
    IN  <<t1, t2 % Limb, t3 % Limb>>

\* the float64 nearest to (p[1] * 2^36 + p[2] * 2^18 + p[3]) * 2^exp, a
\* product that has s bits more than a significand
RoundProduct(p, s, exp) ==
    LET low == 2 ^ s
        high == 2 ^ (LimbBits - s)
    IN  IF s = 0 THEN [sig |-> p, exp |-> exp]
        ELSE RoundToFloat64(<< p[1] \div low,
                               p[2] \div low + (p[1] % low) * high,
                               p[3] \div low + (p[2] % low) * high >>,
                            exp + s, (p[3] % low) \div (low \div 2),
                            (p[3] % low) % (low \div 2) # 0)

\* float64(n) * f for an integer 0 < n < MaxOperand
float64Mul(n, f) ==
    The({ The({ RoundProduct(p, s, g.exp) : s \in {BitLen(p[1]) - (LimbBits - 1)} }) :
                <<g, p>> \in {<<f, Product(f.sig, n)>>} })

\* int(f) for a float64 0 < f < MaxOperand: the last bit of the integer
\* part is in the first limb
intOfFloat64(f) ==
    IF 0 - f.exp >= SignificandBits THEN 0
    ELSE f.sig[1] \div 2 ^ (0 - f.exp - 2 * LimbBits)

\* int(float64(rate) * (float64(elapsed) / float64(period))), 0 <= elapsed < period
tokensToAdd(rate, el, period) ==
    IF el = 0 \/ rate = 0 THEN 0
    ELSE The({ The({ intOfFloat64(product) : product \in {float64Mul(rate, quotient)} }) :
                     quotient \in {float64Div(el, period)} })

\* refill() with the partial refill not capped at maxTokens
refillUncapped(tok, el) ==
    IF el >= refillPeriod
    THEN [tokens |-> maxTokens, elapsed |-> 0]
    ELSE The({ IF toAdd > 0
               THEN [tokens |-> tok + toAdd, elapsed |-> 0]
               ELSE [tokens |-> tok, elapsed |-> el] :
                   toAdd \in {tokensToAdd(refillRate, el, refillPeriod)} })

\* refill() that stamps lastRefill on every access, tokens added or not
refillAlwaysStamps(tok, el) ==
    IF el >= refillPeriod
    THEN [tokens |-> maxTokens, elapsed |-> 0]
    ELSE [tokens |-> min(tok + tokensToAdd(refillRate, el, refillPeriod), maxTokens),
          elapsed |-> 0]

\* refill() of a limiter r = [tokens, maxTokens, refillRate, refillPeriod]
\* accessed el after lastRefill: the tokens after it and the time since
\* lastRefill after it (0 stands for lastRefill = now).
refillOf(r, el) ==
    IF el >= r.refillPeriod
    THEN [tokens |-> r.maxTokens, elapsed |-> 0]
    ELSE The({ IF toAdd > 0
               THEN [tokens |-> min(r.tokens + toAdd, r.maxTokens), elapsed |-> 0]
               ELSE [tokens |-> r.tokens, elapsed |-> el] :
                   toAdd \in {tokensToAdd(r.refillRate, el, r.refillPeriod)} })

\* refill(): the bucket of the client's limiter after the lazy refill, from
\* the bucket before it (tok) and the time since lastRefill (el).
refill(tok, el) ==
    refillOf([tokens |-> tok, maxTokens |-> maxTokens, refillRate |-> refillRate,
              refillPeriod |-> refillPeriod], el)

\* TryAcquire() without the test r.tokens > 0
TryAcquireUnchecked(tok, el) ==
    LET r == refill(tok, el)
    IN  [ok |-> TRUE, tokens |-> r.tokens - 1, elapsed |-> r.elapsed]

\* TryAcquire() without r.tokens--
TryAcquireNoDecrement(tok, el) ==
    LET r == refill(tok, el)
    IN  [ok |-> r.tokens > 0, tokens |-> r.tokens, elapsed |-> r.elapsed]

\* TryAcquire() that decrements before it tests
TryAcquireDecrementFirst(tok, el) ==
    LET r == refill(tok, el)
    IN  [ok |-> r.tokens - 1 >= 0, tokens |-> r.tokens - 1, elapsed |-> r.elapsed]

\* TryAcquire(): refill, then take one token if there is one.
TryAcquire(tok, el) ==
    LET r == refill(tok, el)
    IN  IF r.tokens > 0
        THEN [ok |-> TRUE, tokens |-> r.tokens - 1, elapsed |-> r.elapsed]
        ELSE [ok |-> FALSE, tokens |-> r.tokens, elapsed |-> r.elapsed]

\* timeUntilNextToken(): no refill, reads tokens and time.Since(lastRefill).
timeUntilNextToken(tok, el) ==
    IF tok > 0 THEN 0
    ELSE LET timePerToken == refillPeriod \div refillRate
         IN  IF el >= refillPeriod THEN 0
             ELSE timePerToken - (el % timePerToken)

\* Reset(): full bucket, lastRefill = now.
Reset(tok, el) == [tokens |-> maxTokens, elapsed |-> 0]

\* TokensRemaining(): refill, then read.
TokensRemaining(tok, el) == refill(tok, el)


(***************************************************************************)
(* Errors (registry/errors.go).  An error value is the chain that          *)
(* errors.Is walks: the error, then what Unwrap returns, and so on.        *)
(***************************************************************************)
Err(type) == [type |-> type, status |-> 0]
ErrNotFound == Err("ErrNotFound")
ErrUnauthorized == Err("ErrUnauthorized")
ErrForbidden == Err("ErrForbidden")
ErrRateLimited == Err("ErrRateLimited")
ErrInvalidInput == Err("ErrInvalidInput")
ErrServerError == Err("ErrServerError")
\* context.Canceled, the value of ctx.Err() once the caller has cancelled
ContextCanceled == Err("context.Canceled")

\* the nil error
Nil == << >>

\* (*APIError).Is
APIErrorIs(status, target) ==
    CASE status = 404 -> target = ErrNotFound
      [] status = 401 -> target = ErrUnauthorized
      [] status = 403 -> target = ErrForbidden
      [] status = 429 -> target = ErrRateLimited
      [] status \in {500, 502, 503} -> target = ErrServerError
      [] OTHER -> FALSE

\* (*APIError).Unwrap
APIErrorUnwrap(status) ==
    CASE status = 404 -> <<ErrNotFound>>
      [] status = 401 -> <<ErrUnauthorized>>
      [] status = 403 -> <<ErrForbidden>>
      [] status = 429 -> <<ErrRateLimited>>
      [] status \in {500, 502, 503} -> <<ErrServerError>>
      [] OTHER -> << >>

\* &APIError{StatusCode: status}, as Client.do builds it
APIError(status) == <<[type |-> "APIError", status |-> status]>> \o APIErrorUnwrap(status)

\* &RequestError{Err: fmt.Errorf("error performing request: %w", err)}
RequestError(err) == <<Err("RequestError"), Err("error performing request")>> \o err

\* errors.Is(err, target): some error of the chain is the target or says,
\* through its Is method, that it matches it.
errorsIs(err, target) ==
    \E i \in 1..Len(err) :
        \/ err[i] = target
        \/ err[i].type = "APIError" /\ APIErrorIs(err[i].status, target)
        \/ err[i].type = "ValidationError" /\ target = ErrInvalidInput

IsServerError(err) == errorsIs(err, ErrServerError)
IsRateLimited(err) == errorsIs(err, ErrRateLimited)
IsNotFound(err) == errorsIs(err, ErrNotFound)

(***************************************************************************)
(* One HTTP attempt's outcome: a response, or an error of the transport.   *)
(* A header is absent (set = FALSE), or present and parsable or not.  The  *)
(* value of x-ratelimit-reset is an absolute instant; val is that instant  *)
(* minus the instant at which the retry policy reads it (time.Until).      *)
(* The value of Retry-After is a number of seconds.                        *)
(***************************************************************************)
NoHeader == [set |-> FALSE, ok |-> FALSE, val |-> 0]
Header(v) == [set |-> TRUE, ok |-> TRUE, val |-> v]
Unparsable == [set |-> TRUE, ok |-> FALSE, val |-> 0]

Response(status, reset, retryAfter) ==
    [kind |-> "resp", status |-> status, reset |-> reset, retryAfter |-> retryAfter]
NetErr == [kind |-> "neterr", status |-> 0, reset |-> NoHeader, retryAfter |-> NoHeader]
CtxErr == [kind |-> "ctxerr", status |-> 0, reset |-> NoHeader, retryAfter |-> NoHeader]
NoResp == [kind |-> "none", status |-> 0, reset |-> NoHeader, retryAfter |-> NoHeader]

\* What the remote may answer: the statuses and headers the retry policy
\* tells apart, with a reset hint in the past and one beyond RetryWaitMax,
\* and a Retry-After below RetryWaitMin.
Responses ==
    { Response(200, NoHeader, NoHeader),
      Response(404, NoHeader, NoHeader),
      Response(429, NoHeader, NoHeader),
      Response(429, Header(-1), NoHeader),
      Response(429, Header(RetryWaitMax + 1), NoHeader),
      Response(429, Unparsable, NoHeader),
      Response(429, NoHeader, Header(RetryWaitMin - 1)),
      Response(500, NoHeader, NoHeader),
      Response(500, Header(RetryWaitMax + 1), NoHeader),
      Response(503, NoHeader, Header(RetryWaitMin - 1)) }

(***************************************************************************)
(* The retry policy of newDefaultHTTPClient.  retryablehttp.DefaultBackoff *)
(* and retryablehttp.DefaultRetryPolicy are the library functions          *)
(* (go-retryablehttp v0.7.8) the closures fall back to.                    *)
(***************************************************************************)
\* retryablehttp.DefaultRetryPolicy(ctx, resp, nil): never retries once the
\* context is done; retries 429, status 0 and 5xx other than 501.
DefaultRetryPolicy(ctxDone, resp) ==
    IF ctxDone THEN [retry |-> FALSE, err |-> <<ContextCanceled>>]
    ELSE IF resp.status = 429 THEN [retry |-> TRUE, err |-> Nil]
    ELSE IF resp.status = 0 \/ (resp.status >= 500 /\ resp.status # 501)
         THEN [retry |-> TRUE, err |-> <<Err("unexpected HTTP status")>>]
    ELSE [retry |-> FALSE, err |-> Nil]

\* CheckRetry retrying every status >= 400
CheckRetryClientErrors(ctxDone, resp) ==
    IF resp.kind # "resp" THEN [retry |-> TRUE, err |-> Nil]
    ELSE IF resp.status >= 400 THEN [retry |-> TRUE, err |-> Nil]
    ELSE DefaultRetryPolicy(ctxDone, resp)

\* retryClient.CheckRetry
CheckRetry(ctxDone, resp) ==
    IF resp.kind # "resp" THEN [retry |-> TRUE, err |-> Nil]
    ELSE IF resp.status = 429 THEN [retry |-> TRUE, err |-> Nil]
    ELSE IF resp.status >= 500 THEN [retry |-> TRUE, err |-> Nil]
    ELSE DefaultRetryPolicy(ctxDone, resp)

RECURSIVE Pow2(_)
Pow2(n) == IF n = 0 THEN 1 ELSE 2 * Pow2(n - 1)

\* retryablehttp.DefaultBackoff(min, max, attemptNum, resp)
DefaultBackoff(lo, hi, attemptNum, resp) ==
    IF /\ resp.kind = "resp"
       /\ resp.status \in {429, 503}
       /\ resp.retryAfter.set /\ resp.retryAfter.ok
    THEN resp.retryAfter.val
    ELSE LET sleep == Pow2(attemptNum) * lo
         IN  IF sleep > hi THEN hi ELSE sleep

\* Backoff without the x-ratelimit-reset branch
BackoffIgnoringReset(lo, hi, attemptNum, resp) == DefaultBackoff(lo, hi, attemptNum, resp)

\* retryClient.Backoff
Backoff(lo, hi, attemptNum, resp) ==
    IF /\ resp.kind = "resp"
       /\ resp.status = 429
       /\ resp.reset.set /\ resp.reset.ok
    THEN resp.reset.val
    ELSE DefaultBackoff(lo, hi, attemptNum, resp)


(***************************************************************************)
(* State.                                                                  *)
(***************************************************************************)
VARIABLES
    tokens,         \* RateLimiter.tokens
    elapsed,        \* now - RateLimiter.lastRefill, saturated at refillPeriod
    pc,             \* where each caller is in Wait / request / Do
    inRequest,      \* whether the caller's call is Client.request (else Wait)
    cancelled,      \* whether the context of the caller's current call is done
    timer,          \* time left on the timer the caller's select waits on
    woke,           \* the case the caller's select has taken: "", "timer", "ctx"
    attempt,        \* attempts of the current request started so far
    lastResp,       \* outcome of the request's last finished attempt
    wait,           \* what Backoff returned after the last finished attempt
    result,         \* the error the caller's last call returned
    consumed,       \* tokens the caller's current call has taken
    only500,        \* every finished attempt of the request was answered 500
    tryRet,         \* what the last TryAcquire returned
    windowTokens,   \* tokens right after the last refill or Reset
    windowCalls,    \* TryAcquire calls since then (saturating)
    windowAcquired, \* those that returned true
    fn,             \* the function or operation last called ("" before any call)
    arg,            \* what it was called with
    ret,            \* what it returned
    errs            \* MultiError.Errors of the MultiError in use

limiter == <<tokens, elapsed>>
window == <<windowTokens, windowCalls, windowAcquired>>
call == <<inRequest, attempt, lastResp, wait, result, consumed, only500>>
applied == <<fn, arg, ret, errs>>
client == <<tokens, elapsed, pc, inRequest, cancelled, timer, woke, attempt, lastResp, wait,
            result, consumed, only500, tryRet, windowTokens, windowCalls, windowAcquired>>
vars == <<tokens, elapsed, pc, inRequest, cancelled, timer, woke, attempt, lastResp, wait,
          result, consumed, only500, tryRet, windowTokens, windowCalls,
          windowAcquired, fn, arg, ret, errs>>

\* saturation point of windowCalls
MaxCalls == maxTokens + 2

\* the result of a call that has not returned
Pending == <<Err("pending")>>

\* NewClient: a full bucket and no call in progress
ClientInit ==
    /\ tokens = maxTokens
    /\ elapsed = 0
    /\ pc = [p \in Callers |-> "idle"]
    /\ inRequest = [p \in Callers |-> FALSE]
    /\ cancelled = [p \in Callers |-> FALSE]
    /\ timer = [p \in Callers |-> 0]
    /\ woke = [p \in Callers |-> ""]
    /\ attempt = [p \in Callers |-> 0]
    /\ lastResp = [p \in Callers |-> NoResp]
    /\ wait = [p \in Callers |-> 0]
    /\ result = [p \in Callers |-> Pending]
    /\ consumed = [p \in Callers |-> 0]
    /\ only500 = [p \in Callers |-> TRUE]
    /\ tryRet = FALSE
    /\ windowTokens = maxTokens
    /\ windowCalls = 0
    /\ windowAcquired = 0

Init ==
    /\ ClientInit
    /\ fn = ""
    /\ arg = << >>
    /\ ret = << >>
    /\ errs = << >>

(***************************************************************************)
(* The limiter's methods, each one critical section under r.mu.            *)
(***************************************************************************)
\* The bucket becomes b.  refilled says that the call assigned tokens and
\* lastRefill (a refill that added tokens, a full refill, or Reset) and t0
\* is the number of tokens it assigned; tried says that the call was a
\* TryAcquire, and ok what it returned.
Access(b, refilled, t0, tried, ok) ==
    /\ tokens' = b.tokens
    /\ elapsed' = b.elapsed
    /\ windowTokens' = IF refilled THEN t0 ELSE windowTokens
    /\ windowCalls' = min((IF refilled THEN 0 ELSE windowCalls) + (IF tried THEN 1 ELSE 0),
                          MaxCalls)
    /\ windowAcquired' = (IF refilled THEN 0 ELSE windowAcquired) + (IF ok THEN 1 ELSE 0)
    /\ tryRet' = IF tried THEN ok ELSE tryRet

\* refill() assigned lastRefill
Refilled == refill(tokens, elapsed).elapsed # elapsed

\* r.TryAcquire() called directly
TryAcquireOp ==
    /\ LET t == TryAcquire(tokens, elapsed)
       IN  Access(t, Refilled, refill(tokens, elapsed).tokens, TRUE, t.ok)
    /\ UNCHANGED <<applied, pc, cancelled, timer, woke, call>>

\* r.Reset()
ResetOp ==
    /\ Access(Reset(tokens, elapsed), TRUE, maxTokens, FALSE, FALSE)
    /\ UNCHANGED <<applied, pc, cancelled, timer, woke, call>>

\* r.TokensRemaining()
TokensRemainingOp ==
    /\ Access(TokensRemaining(tokens, elapsed), Refilled, refill(tokens, elapsed).tokens,
              FALSE, FALSE)
    /\ UNCHANGED <<applied, pc, cancelled, timer, woke, call>>

(***************************************************************************)
(* select { case <-ctx.Done(): ...; case <-timer: ... }                    *)
(***************************************************************************)
\* a wait that sleeps on the timer alone and never looks at ctx.Done()
SelectCasesTimerOnly(ctxDone, w) == IF w <= 0 THEN {"timer"} ELSE {""}

\* The cases a select can take when it is entered with w left on its timer:
\* a case that is ready is taken at once, either one when both are ready,
\* and otherwise the caller blocks ("") until Tick or Cancel wakes it.
SelectCases(ctxDone, w) ==
    IF ctxDone /\ w <= 0 THEN {"ctx", "timer"}
    ELSE IF ctxDone THEN {"ctx"}
    ELSE IF w <= 0 THEN {"timer"}
    ELSE {""}

Sleeping(p) == pc[p] \in {"WaitSelect", "Backoff"}

\* One unit of time passes.
Tick ==
    /\ elapsed' = min(elapsed + 1, refillPeriod)
    /\ timer' = [p \in Callers |-> IF timer[p] > 0 THEN timer[p] - 1 ELSE 0]
    /\ woke' = [p \in Callers |->
                  IF Sleeping(p) /\ woke[p] = "" /\ timer[p] = 1 THEN "timer" ELSE woke[p]]
    /\ UNCHANGED <<applied, tokens, pc, cancelled, call, tryRet, window>>

\* The caller's cancellation signal fires.
Cancel(p) ==
    /\ pc[p] # "idle"
    /\ ~cancelled[p]
    /\ cancelled' = [cancelled EXCEPT ![p] = TRUE]
    /\ woke' = [woke EXCEPT ![p] = IF Sleeping(p) /\ woke[p] = "" THEN "ctx" ELSE woke[p]]
    /\ UNCHANGED <<applied, limiter, pc, timer, call, tryRet, window>>


(***************************************************************************)
(* RateLimiter.Wait(ctx), called by Client.request or directly.            *)
(***************************************************************************)
\* A caller starts a call with a fresh context.
StartCall(p, request) ==
    /\ pc[p] = "idle"
    /\ pc' = [pc EXCEPT ![p] = "Wait"]
    /\ inRequest' = [inRequest EXCEPT ![p] = request]
    /\ cancelled' = [cancelled EXCEPT ![p] = FALSE]
    /\ attempt' = [attempt EXCEPT ![p] = 0]
    /\ lastResp' = [lastResp EXCEPT ![p] = NoResp]
    /\ wait' = [wait EXCEPT ![p] = 0]
    /\ result' = [result EXCEPT ![p] = Pending]
    /\ consumed' = [consumed EXCEPT ![p] = 0]
    /\ only500' = [only500 EXCEPT ![p] = TRUE]
    /\ UNCHANGED <<limiter, timer, woke, tryRet, window>>

\* ... by a caller of Wait or of Client.request
Start(p, request) == StartCall(p, request) /\ UNCHANGED applied

\* Client.request(ctx, ...): first c.rateLimiter.Wait(ctx)
StartRequest(p) == p \in Requesters /\ Start(p, TRUE)

\* r.Wait(ctx) called directly
StartWait(p) == Start(p, FALSE)

\* if r.TryAcquire() { return nil }: on nil Client.request goes on to
\* newRequest and Client.do, a direct call returns.
WaitTryAcquire(p) ==
    /\ pc[p] = "Wait"
    /\ LET t == TryAcquire(tokens, elapsed)
       IN  /\ Access(t, Refilled, refill(tokens, elapsed).tokens, TRUE, t.ok)
           /\ consumed' = [consumed EXCEPT ![p] = @ + (refill(tokens, elapsed).tokens - t.tokens)]
           /\ pc' = [pc EXCEPT ![p] =
                       IF ~t.ok THEN "WaitTime"
                       ELSE IF inRequest[p] THEN "Do" ELSE "idle"]
           /\ result' = [result EXCEPT ![p] =
                           IF t.ok /\ ~inRequest[p] THEN Nil ELSE @]
    /\ UNCHANGED <<applied, inRequest, cancelled, timer, woke, attempt, lastResp, wait, only500>>

\* waitTime := r.timeUntilNextToken(), then the select is entered
WaitTimeUntilNextToken(p) ==
    /\ pc[p] = "WaitTime"
    /\ LET waitTime == timeUntilNextToken(tokens, elapsed)
       IN  /\ timer' = [timer EXCEPT ![p] = waitTime]
           /\ \E c \in SelectCases(cancelled[p], waitTime) :
                  woke' = [woke EXCEPT ![p] = c]
    /\ pc' = [pc EXCEPT ![p] = "WaitSelect"]
    /\ UNCHANGED <<applied, limiter, cancelled, call, tryRet, window>>

\* case <-ctx.Done(): return ctx.Err(); Client.request wraps it:
\* fmt.Errorf("rate limit error: %w", err)
WaitCtxDone(p) ==
    /\ pc[p] = "WaitSelect"
    /\ woke[p] = "ctx"
    /\ pc' = [pc EXCEPT ![p] = "idle"]
    /\ timer' = [timer EXCEPT ![p] = 0]
    /\ woke' = [woke EXCEPT ![p] = ""]
    /\ result' = [result EXCEPT ![p] =
                    IF inRequest[p]
                    THEN <<Err("rate limit error"), ContextCanceled>>
                    ELSE <<ContextCanceled>>]
    /\ UNCHANGED <<applied, limiter, inRequest, cancelled, attempt, lastResp, wait, consumed,
                   only500, tryRet, window>>

\* case <-time.After(waitTime): try again
WaitTimerFired(p) ==
    /\ pc[p] = "WaitSelect"
    /\ woke[p] = "timer"
    /\ pc' = [pc EXCEPT ![p] = "Wait"]
    /\ timer' = [timer EXCEPT ![p] = 0]
    /\ woke' = [woke EXCEPT ![p] = ""]
    /\ UNCHANGED <<applied, limiter, cancelled, call, tryRet, window>>


(***************************************************************************)
(* Client.do: c.httpClient.Do(req) runs the retry loop of the retryable    *)
(* client built by newDefaultHTTPClient (RetryMax, CheckRetry, Backoff),   *)
(* then Client.do turns what it returned into the call's error.            *)
(***************************************************************************)
\* The error of a transport failure.
DoErr(resp) ==
    IF resp.kind = "ctxerr" THEN <<ContextCanceled>> ELSE <<Err("network error")>>

\* What Client.do returns when the retry loop ends after an attempt with
\* outcome resp, chk being what CheckRetry said about it: the loop hands
\* the response back only if the policy neither asked for a retry nor
\* reported an error, and otherwise returns "giving up after n attempt(s)"
\* around the policy's or the transport's error, if there is one.
doResult(resp, chk) ==
    IF resp.kind = "resp" /\ chk.err = Nil /\ ~chk.retry
    THEN IF resp.status < 200 \/ resp.status >= 300 THEN APIError(resp.status) ELSE Nil
    ELSE RequestError(<<Err("giving up")>> \o
                      (IF chk.err # Nil THEN chk.err
                       ELSE IF resp.kind = "resp" THEN Nil ELSE DoErr(resp)))

\* The retry loop calls the HTTP client.  With the context already done the
\* transport fails the attempt before it sends anything.
StartAttempt(p) ==
    /\ pc[p] = "Do"
    /\ attempt' = [attempt EXCEPT ![p] = @ + 1]
    /\ pc' = [pc EXCEPT ![p] = IF cancelled[p] THEN "Aborted" ELSE "InFlight"]
    /\ UNCHANGED <<applied, limiter, inRequest, cancelled, timer, woke, lastResp, wait, result,
                   consumed, only500, tryRet, window>>

\* The outcomes an attempt can end in.
Outcomes(p) ==
    IF pc[p] = "Aborted" THEN {CtxErr}
    ELSE IF cancelled[p] THEN Responses \cup {NetErr, CtxErr}
    ELSE Responses \cup {NetErr}

\* a retry loop that tests its budget after the attempt that exceeds it
FinishAttemptOnceMore(p) ==
    /\ pc[p] \in {"InFlight", "Aborted"}
    /\ \E resp \in Outcomes(p) :
         LET i == attempt[p] - 1
             chk == CheckRetry(cancelled[p], resp)
             w == Backoff(RetryWaitMin, RetryWaitMax, i, resp)
         IN  /\ lastResp' = [lastResp EXCEPT ![p] = resp]
             /\ only500' = [only500 EXCEPT ![p] = @ /\ resp.kind = "resp" /\ resp.status = 500]
             /\ IF chk.retry /\ MaxRetries - i >= 0
                THEN /\ pc' = [pc EXCEPT ![p] = "Backoff"]
                     /\ wait' = [wait EXCEPT ![p] = w]
                     /\ timer' = [timer EXCEPT ![p] = IF w > 0 THEN w ELSE 0]
                     /\ \E c \in SelectCases(cancelled[p], w) :
                            woke' = [woke EXCEPT ![p] = c]
                     /\ UNCHANGED result
                ELSE /\ pc' = [pc EXCEPT ![p] = "idle"]
                     /\ result' = [result EXCEPT ![p] = doResult(resp, chk)]
                     /\ UNCHANGED <<wait, timer, woke>>
    /\ UNCHANGED <<applied, limiter, inRequest, cancelled, attempt, consumed, tryRet, window>>

\* The attempt ends; CheckRetry and the retry budget decide whether the loop
\* goes on, and if it does Backoff sets the timer of the loop's select.
FinishAttempt(p) ==
    /\ pc[p] \in {"InFlight", "Aborted"}
    /\ \E resp \in Outcomes(p) :
         LET i == attempt[p] - 1
             chk == CheckRetry(cancelled[p], resp)
             w == Backoff(RetryWaitMin, RetryWaitMax, i, resp)
         IN  /\ lastResp' = [lastResp EXCEPT ![p] = resp]
             /\ only500' = [only500 EXCEPT ![p] = @ /\ resp.kind = "resp" /\ resp.status = 500]
             /\ IF chk.retry /\ MaxRetries - i > 0
                THEN /\ pc' = [pc EXCEPT ![p] = "Backoff"]
                     /\ wait' = [wait EXCEPT ![p] = w]
                     /\ timer' = [timer EXCEPT ![p] = IF w > 0 THEN w ELSE 0]
                     /\ \E c \in SelectCases(cancelled[p], w) :
                            woke' = [woke EXCEPT ![p] = c]
                     /\ UNCHANGED result
                ELSE /\ pc' = [pc EXCEPT ![p] = "idle"]
                     /\ result' = [result EXCEPT ![p] = doResult(resp, chk)]
                     /\ UNCHANGED <<wait, timer, woke>>
    /\ UNCHANGED <<applied, limiter, inRequest, cancelled, attempt, consumed, tryRet, window>>

\* case <-req.Context().Done(): return nil, req.Context().Err()
BackoffCtxDone(p) ==
    /\ pc[p] = "Backoff"
    /\ woke[p] = "ctx"
    /\ pc' = [pc EXCEPT ![p] = "idle"]
    /\ timer' = [timer EXCEPT ![p] = 0]
    /\ woke' = [woke EXCEPT ![p] = ""]
    /\ result' = [result EXCEPT ![p] = RequestError(<<ContextCanceled>>)]
    /\ UNCHANGED <<applied, limiter, inRequest, cancelled, attempt, lastResp, wait, consumed,
                   only500, tryRet, window>>

\* case <-timer.C: the next attempt
BackoffTimerFired(p) ==
    /\ pc[p] = "Backoff"
    /\ woke[p] = "timer"
    /\ pc' = [pc EXCEPT ![p] = "Do"]
    /\ timer' = [timer EXCEPT ![p] = 0]
    /\ woke' = [woke EXCEPT ![p] = ""]
    /\ UNCHANGED <<applied, limiter, cancelled, call, tryRet, window>>

(***************************************************************************)
(* The system.                                                             *)
(***************************************************************************)
Next ==
    \/ Tick
    \/ TryAcquireOp
    \/ ResetOp
    \/ TokensRemainingOp
    \/ \E p \in Callers :
         \/ StartRequest(p)
         \/ StartWait(p)
         \/ Cancel(p)
         \/ WaitTryAcquire(p)
         \/ WaitTimeUntilNextToken(p)
         \/ WaitCtxDone(p)
         \/ WaitTimerFired(p)
         \/ StartAttempt(p)
         \/ FinishAttempt(p)
         \/ BackoffCtxDone(p)
         \/ BackoffTimerFired(p)

Spec == Init /\ [][Next]_vars

\* The steps of Wait a caller takes by itself once it has called it.
WaitStep(p) ==
    \/ WaitTryAcquire(p)
    \/ WaitTimeUntilNextToken(p)
    \/ WaitCtxDone(p)
    \/ WaitTimerFired(p)

\* The limiter on its own, shared by callers that call Wait and TryAcquire.
WaitNext ==
    \/ Tick
    \/ TryAcquireOp
    \/ \E p \in Callers :
         \/ StartWait(p)
         \/ Cancel(p)
         \/ WaitTryAcquire(p)
         \/ WaitTimeUntilNextToken(p)
         \/ WaitCtxDone(p)
         \/ WaitTimerFired(p)

\* Time passes, and the scheduler runs every goroutine that can run.
\* Nothing forces a caller to call Wait or TryAcquire, or to cancel.
WaitSpec ==
    /\ Init /\ [][WaitNext]_vars
    /\ WF_vars(Tick)
    /\ \A p \in Callers : WF_vars(WaitStep(p))


(***************************************************************************)
(* Strings.  A Go string is modelled as the sequence of its characters,    *)
(* each a one-character string; << >> is the empty string "".              *)
(***************************************************************************)
Digits == {"0", "1", "2", "3", "4", "5", "6", "7", "8", "9"}
LowerAlpha == {"a", "b", "c", "d", "e", "f", "g", "h", "i", "j", "k", "l", "m",
               "n", "o", "p", "q", "r", "s", "t", "u", "v", "w", "x", "y", "z"}
UpperAlpha == {"A", "B", "C", "D", "E", "F", "G", "H", "I", "J", "K", "L", "M",
               "N", "O", "P", "Q", "R", "S", "T", "U", "V", "W", "X", "Y", "Z"}
\* the white space strings.TrimSpace removes (the ASCII part of it)
Space == {" ", "\t", "\n", "\r"}

\* the characters of the model in the order of their bytes
Ascii == <<"\t", "\n", "\r", " ", "!", "+", "-", ".", "/",
           "0", "1", "2", "3", "4", "5", "6", "7", "8", "9", ":", "@",
           "A", "B", "C", "D", "E", "F", "G", "H", "I", "J", "K", "L", "M",
           "N", "O", "P", "Q", "R", "S", "T", "U", "V", "W", "X", "Y", "Z", "_",
           "a", "b", "c", "d", "e", "f", "g", "h", "i", "j", "k", "l", "m",
           "n", "o", "p", "q", "r", "s", "t", "u", "v", "w", "x", "y", "z">>
Ord(c) == CHOOSE i \in 1..Len(Ascii) : Ascii[i] = c

\* s1 < s2 on Go strings: byte-wise lexical order
RECURSIVE StringLess(_, _)
StringLess(s1, s2) ==
    IF s2 = << >> THEN FALSE
    ELSE IF s1 = << >> THEN TRUE
    ELSE IF Head(s1) = Head(s2) THEN StringLess(Tail(s1), Tail(s2))
    ELSE Ord(Head(s1)) < Ord(Head(s2))

MinOf(S) == CHOOSE x \in S : \A y \in S : x <= y
MaxOf(S) == CHOOSE x \in S : \A y \in S : x >= y

\* s[n:] (n counted from 0, as in Go)
From(s, n) == IF n >= Len(s) THEN << >> ELSE SubSeq(s, n + 1, Len(s))
\* s[:n]
Upto(s, n) == IF n <= 0 THEN << >> ELSE SubSeq(s, 1, n)

\* strings.HasPrefix, strings.TrimPrefix, strings.TrimSpace
HasPrefix(s, prefix) == Len(s) >= Len(prefix) /\ Upto(s, Len(prefix)) = prefix
TrimPrefix(s, prefix) == IF HasPrefix(s, prefix) THEN From(s, Len(prefix)) ELSE s
TrimSpace(s) ==
    LET kept == {i \in 1..Len(s) : s[i] \notin Space}
    IN  IF kept = {} THEN << >> ELSE SubSeq(s, MinOf(kept), MaxOf(kept))

\* strings.Index(s, c) for a one-character c: from 0, -1 when absent
Index(s, c) ==
    LET at == {i \in 1..Len(s) : s[i] = c}
    IN  IF at = {} THEN -1 ELSE MinOf(at) - 1

\* strings.Split(s, sep) for a one-character sep; Split("", sep) is [""]
RECURSIVE Split(_, _)
Split(s, sep) ==
    LET i == Index(s, sep)
    IN  IF i = -1 THEN <<s>> ELSE <<Upto(s, i)>> \o Split(From(s, i + 1), sep)

\* fmt.Sprintf("%s/%s/...", parts...): the parts joined by sep
RECURSIVE Join(_, _)
Join(parts, sep) ==
    IF parts = << >> THEN << >>
    ELSE IF Len(parts) = 1 THEN parts[1]
    ELSE parts[1] \o <<sep>> \o Join(Tail(parts), sep)

\* the longest prefix of s made of characters of class (a greedy x* of a
\* regular expression, whose next item cannot start with such a character)
RECURSIVE Run(_, _)
Run(s, class) ==
    IF s # << >> /\ Head(s) \in class
    THEN <<Head(s)>> \o Run(Tail(s), class)
    ELSE << >>

\* strconv.Atoi on a run of digits (values far below the width of int)
DigitSeq == <<"0", "1", "2", "3", "4", "5", "6", "7", "8", "9">>
RECURSIVE Atoi(_)
Atoi(s) ==
    IF s = << >> THEN 0
    ELSE 10 * Atoi(Upto(s, Len(s) - 1)) + (Ord(s[Len(s)]) - Ord("0"))

\* the decimal text of a number, as version strings carry it
RECURSIVE Itoa(_)
Itoa(n) ==
    IF n < 10 THEN <<DigitSeq[n + 1]>>
    ELSE Itoa(n \div 10) \o <<DigitSeq[(n % 10) + 1]>>

(***************************************************************************)
(* Versions (ValidateProviderVersion, CompareVersions).                    *)
(***************************************************************************)
\* [a-zA-Z0-9\-\.] of semverRegex
TagChars == LowerAlpha \cup UpperAlpha \cup Digits \cup {"-", "."}

\* "latest"
Latest == <<"l", "a", "t", "e", "s", "t">>

NoMatch ==
    [ok |-> FALSE, major |-> << >>, minor |-> << >>, patch |-> << >>,
     pre |-> << >>, build |-> << >>]

\* semverRegex without its closing $
semverRegexUnanchored(s) ==
    LET s0 == IF HasPrefix(s, <<"v">>) THEN Tail(s) ELSE s
        major == Run(s0, Digits)
        s1 == From(s0, Len(major))
        minor == IF HasPrefix(s1, <<".">>) THEN Run(Tail(s1), Digits) ELSE << >>
        s2 == From(s1, 1 + Len(minor))
        patch == IF HasPrefix(s2, <<".">>) THEN Run(Tail(s2), Digits) ELSE << >>
        s3 == From(s2, 1 + Len(patch))
        hasPre == HasPrefix(s3, <<"-">>) /\ Run(Tail(s3), TagChars) # << >>
        pre == IF hasPre THEN Run(Tail(s3), TagChars) ELSE << >>
        s4 == IF hasPre THEN From(s3, 1 + Len(pre)) ELSE s3
        hasBuild == HasPrefix(s4, <<"+">>) /\ Run(Tail(s4), TagChars) # << >>
        build == IF hasBuild THEN Run(Tail(s4), TagChars) ELSE << >>
    IN  IF major # << >> /\ minor # << >> /\ patch # << >>
        THEN [ok |-> TRUE, major |-> major, minor |-> minor, patch |-> patch,
              pre |-> pre, build |-> build]
        ELSE NoMatch

\* semverRegex.FindStringSubmatch(s):
\*   ^v?(\d+)\.(\d+)\.(\d+)(?:-([a-zA-Z0-9\-\.]+))?(?:\+([a-zA-Z0-9\-\.]+))?$
\* Every item is followed by a character outside its class, so the match is
\* the one a left-to-right scan with greedy runs finds.
semverRegex(s) ==
    LET s0 == IF HasPrefix(s, <<"v">>) THEN Tail(s) ELSE s
        major == Run(s0, Digits)
        s1 == From(s0, Len(major))
        minor == IF HasPrefix(s1, <<".">>) THEN Run(Tail(s1), Digits) ELSE << >>
        s2 == From(s1, 1 + Len(minor))
        patch == IF HasPrefix(s2, <<".">>) THEN Run(Tail(s2), Digits) ELSE << >>
        s3 == From(s2, 1 + Len(patch))
        hasPre == HasPrefix(s3, <<"-">>) /\ Run(Tail(s3), TagChars) # << >>
        pre == IF hasPre THEN Run(Tail(s3), TagChars) ELSE << >>
        s4 == IF hasPre THEN From(s3, 1 + Len(pre)) ELSE s3
        hasBuild == HasPrefix(s4, <<"+">>) /\ Run(Tail(s4), TagChars) # << >>
        build == IF hasBuild THEN Run(Tail(s4), TagChars) ELSE << >>
        s5 == IF hasBuild THEN From(s4, 1 + Len(build)) ELSE s4
    IN  IF major # << >> /\ minor # << >> /\ patch # << >> /\ s5 = << >>
        THEN [ok |-> TRUE, major |-> major, minor |-> minor, patch |-> patch,
              pre |-> pre, build |-> build]
        ELSE NoMatch

\* an error made by fmt.Errorf or errors.New with this message
Errorf(msg) == <<Err(msg)>>

\* ValidateProviderVersion
ValidateProviderVersion(version) ==
    IF version = << >> \/ version = Latest THEN Nil
    ELSE IF ~semverRegex(version).ok THEN Errorf("invalid semantic version format")
    ELSE Nil

\* NormalizeVersion
NormalizeVersion(version) == TrimPrefix(version, <<"v">>)

\* parseSemanticVersion
parseSemanticVersion(version) ==
    LET parts(matches) ==
            IF matches.ok
            THEN <<Atoi(matches.major), Atoi(matches.minor), Atoi(matches.patch)>>
            ELSE <<0, 0, 0>>
    IN  The({parts(matches) : matches \in {semverRegex(version)}})

\* extractPreRelease
extractPreRelease(version) ==
    The({IF matches.ok THEN matches.pre ELSE << >> : matches \in {semverRegex(version)}})

\* CompareVersions with major, minor and patch compared as text
CompareVersionsTextual(v1, v2) ==
    LET n1 == NormalizeVersion(v1)
        n2 == NormalizeVersion(v2)
        m1 == semverRegex(n1)
        m2 == semverRegex(n2)
        v1Parts == <<m1.major, m1.minor, m1.patch>>
        v2Parts == <<m2.major, m2.minor, m2.patch>>
        differ == {i \in 1..3 : v1Parts[i] # v2Parts[i]}
        v1Pre == extractPreRelease(n1)
        v2Pre == extractPreRelease(n2)
    IN  IF differ # {}
        THEN IF StringLess(v1Parts[MinOf(differ)], v2Parts[MinOf(differ)]) THEN -1 ELSE 1
        ELSE IF v1Pre = << >> /\ v2Pre # << >> THEN 1
        ELSE IF v1Pre # << >> /\ v2Pre = << >> THEN -1
        ELSE IF StringLess(v1Pre, v2Pre) THEN -1
        ELSE IF StringLess(v2Pre, v1Pre) THEN 1
        ELSE 0

\* CompareVersions: -1, 0 or 1
CompareVersions(v1, v2) ==
    LET \* for i := 0; i < 3; i++: the first component that differs decides
        differ(v1Parts, v2Parts) == {i \in 1..3 : v1Parts[i] # v2Parts[i]}
        compare(v1Parts, v2Parts, v1Pre, v2Pre) ==
            IF differ(v1Parts, v2Parts) # {}
            THEN IF v1Parts[MinOf(differ(v1Parts, v2Parts))]
                        < v2Parts[MinOf(differ(v1Parts, v2Parts))] THEN -1 ELSE 1
            ELSE IF v1Pre = << >> /\ v2Pre # << >> THEN 1
            ELSE IF v1Pre # << >> /\ v2Pre = << >> THEN -1
            ELSE IF StringLess(v1Pre, v2Pre) THEN -1
            ELSE IF StringLess(v2Pre, v1Pre) THEN 1
            ELSE 0
    IN  The({ compare(v1Parts, v2Parts, v1Pre, v2Pre) :
                v1Parts \in {parseSemanticVersion(NormalizeVersion(v1))},
                v2Parts \in {parseSemanticVersion(NormalizeVersion(v2))},
                v1Pre \in {extractPreRelease(NormalizeVersion(v1))},
                v2Pre \in {extractPreRelease(NormalizeVersion(v2))} })


(***************************************************************************)
(* Version strings given to ValidateProviderVersion and CompareVersions.   *)
(***************************************************************************)
\* longest tail appended to a dotted core to make an input
MaxTailLen == 3
\* largest major and patch number of the versions compared
MaxMajor == 1
MaxPatch == 0

Str1_0_0 == <<"1", ".", "0", ".", "0">>

\* what the specification says is accepted, and what the tests add
AcceptedExamples ==
    { << >>, Latest, Str1_0_0, <<"v">> \o Str1_0_0,
      Str1_0_0 \o <<"-", "a", "l", "p", "h", "a">>,
      Str1_0_0 \o <<"-", "b", "e", "t", "a", ".", "1">>,
      <<"1", "0", ".", "2", "0", ".", "3", "0">> }

\* what it says is rejected, and what the tests add
RejectedExamples ==
    { <<"1">>, <<"1", ".", "0">>, Str1_0_0 \o <<".", "0">>, <<"a", "b", "c">>,
      <<"1", ".", "a", ".", "0">>, <<"1", ".", "0", ".", "a">>,
      <<"v">> \o Str1_0_0 \o <<".", "0">>, Str1_0_0 \o <<"-">> }

VersionCores ==
    { << >>, <<"1">>, <<"1", ".", "0">>, Str1_0_0,
      <<"1", "0", ".", "2", "0", ".", "3", "0">>, <<"1", ".", ".", "0">>,
      <<"1", ".", "a", ".", "0">>, <<"l", "a", "t", "e", "s", "t">> }
TailChars == {"-", "+", ".", "a", "1", " "}
Tails == UNION {[1..n -> TailChars] : n \in 0..MaxTailLen}

\* the strings validated: an optional v, a core, a tail; and the examples
VersionInputs ==
    {prefix \o core \o tail :
        prefix \in {<< >>, <<"v">>}, core \in VersionCores, tail \in Tails}
    \cup AcceptedExamples \cup RejectedExamples

\* a version with the text that denotes it
Version(v, major, minor, patch, pre, build) ==
    [major |-> major, minor |-> minor, patch |-> patch, pre |-> pre, build |-> build,
     text |-> (IF v THEN <<"v">> ELSE << >>)
              \o Itoa(major) \o <<".">> \o Itoa(minor) \o <<".">> \o Itoa(patch)
              \o (IF pre = << >> THEN << >> ELSE <<"-">> \o pre)
              \o (IF build = << >> THEN << >> ELSE <<"+">> \o build)]

PreTags == {<< >>, <<"a">>, <<"a", ".", "1">>, <<"B">>}
BuildTags == {<< >>, <<"b", "1">>}

\* the valid versions compared; minor numbers of one and of two digits
Versions ==
    {Version(v, major, minor, patch, pre, build) :
        v \in BOOLEAN, major \in 0..MaxMajor, minor \in {2, 10}, patch \in 0..MaxPatch,
        pre \in PreTags, build \in BuildTags}

\* A string is validated.
ValidateInit ==
    /\ ClientInit
    /\ fn = ""
    /\ arg \in VersionInputs
    /\ ret = << >>
    /\ errs = << >>

ValidateProviderVersionOp ==
    /\ fn' = "ValidateProviderVersion"
    /\ ret' = ValidateProviderVersion(arg)
    /\ UNCHANGED <<arg, errs, client>>

ValidateNext == ValidateProviderVersionOp

ValidateSpec == ValidateInit /\ [][ValidateNext]_vars

\* Two versions are compared.
CompareInit ==
    /\ ClientInit
    /\ fn = ""
    /\ arg \in Versions \X Versions
    /\ ret = << >>
    /\ errs = << >>

CompareVersionsOp ==
    /\ fn' = "CompareVersions"
    /\ ret' = CompareVersions(arg[1].text, arg[2].text)
    /\ UNCHANGED <<arg, errs, client>>

CompareNext == CompareVersionsOp

CompareSpec == CompareInit /\ [][CompareNext]_vars


(***************************************************************************)
(* Latest-version selection (ModulesService.GetLatest / ListVersions,      *)
(* ProvidersService.GetLatest).                                            *)
(***************************************************************************)
\* most version entries the registry lists for one module or provider
MaxListed == 3

\* the version strings the registry may list: "", 0.0.0-a, 1.2.0, v1.10.0,
\* 1.10.0 (each one is accepted by ValidateProviderVersion)
ListedVersions ==
    { << >>,
      <<"0", ".", "0", ".", "0", "-", "a">>,
      <<"1", ".", "2", ".", "0">>,
      <<"v", "1", ".", "1", "0", ".", "0">>,
      <<"1", ".", "1", "0", ".", "0">> }
VersionLists == UNION {[1..n -> ListedVersions] : n \in 0..MaxListed}

\* what the selection returns: the version chosen, or an error
Chosen(version) == [err |-> Nil, version |-> version]
Failed(err) == [err |-> err, version |-> << >>]

\* ModulesService.ListVersions, from the decoded response on: the non-empty
\* version strings of resp.Modules[0].Versions, in order
RECURSIVE NonEmpty(_)
NonEmpty(listed) ==
    IF listed = << >> THEN << >>
    ELSE (IF Head(listed) # << >> THEN <<Head(listed)>> ELSE << >>) \o NonEmpty(Tail(listed))

\* for i := 1; i < len(versions); i++ { if CompareVersions(versions[i], latest) > 0 ... }
RECURSIVE ModulesFold(_, _, _)
ModulesFold(versions, i, latest) ==
    IF i > Len(versions) THEN latest
    ELSE ModulesFold(versions, i + 1,
                     IF CompareVersions(versions[i], latest) > 0 THEN versions[i] ELSE latest)

\* ModulesService.GetLatest, up to the version it asks s.Get for
ModulesGetLatest(listed) ==
    LET versions == NonEmpty(listed)
    IN  IF versions = << >> THEN Failed(Errorf("no versions found for module"))
        ELSE Chosen(ModulesFold(versions, 2, versions[1]))

\* for _, version := range result.Included {
\*     if latestVersion == "" || CompareVersions(version, latestVersion) > 0 ... }
RECURSIVE ProvidersFold(_, _, _)
ProvidersFold(included, i, latestVersion) ==
    IF i > Len(included) THEN latestVersion
    ELSE ProvidersFold(included, i + 1,
             IF latestVersion = << >> \/ CompareVersions(included[i], latestVersion) > 0
             THEN included[i] ELSE latestVersion)

\* ProvidersService.GetLatest, from the decoded response on
ProvidersGetLatest(included) ==
    LET latestVersion == ProvidersFold(included, 1, << >>)
    IN  IF latestVersion = << >> THEN Failed(Errorf("no versions found for provider"))
        ELSE Chosen(latestVersion)

\* The registry lists versions and the latest one is selected.
LatestInit ==
    /\ ClientInit
    /\ fn = ""
    /\ arg \in VersionLists
    /\ ret = << >>
    /\ errs = << >>

ModulesGetLatestOp ==
    /\ fn' = "ModulesService.GetLatest"
    /\ ret' = ModulesGetLatest(arg)
    /\ UNCHANGED <<arg, errs, client>>

ProvidersGetLatestOp ==
    /\ fn' = "ProvidersService.GetLatest"
    /\ ret' = ProvidersGetLatest(arg)
    /\ UNCHANGED <<arg, errs, client>>

LatestNext == ModulesGetLatestOp \/ ProvidersGetLatestOp

LatestSpec == LatestInit /\ [][LatestNext]_vars


(***************************************************************************)
(* The taxonomy predicates on API errors (registry/errors.go).             *)
(***************************************************************************)
IsUnauthorized(err) == errorsIs(err, ErrUnauthorized)
IsForbidden(err) == errorsIs(err, ErrForbidden)
IsValidationError(err) == errorsIs(err, ErrInvalidInput)

\* the HTTP statuses of an error response: 4xx and 5xx
MinErrorStatus == 400
MaxErrorStatus == 599
ErrorStatuses == MinErrorStatus..MaxErrorStatus
ServerErrorStatuses == {s \in ErrorStatuses : s \div 100 = 5}

\* An APIError is built for a status and handed to the predicates.
APIErrorInit ==
    /\ ClientInit
    /\ fn = ""
    /\ arg \in ErrorStatuses
    /\ ret = << >>
    /\ errs = << >>

APIErrorOp ==
    /\ fn' = "APIError"
    /\ ret' = APIError(arg)
    /\ UNCHANGED <<arg, errs, client>>

APIErrorNext == APIErrorOp

APIErrorSpec == APIErrorInit /\ [][APIErrorNext]_vars


(***************************************************************************)
(* ValidationError and MultiError (registry/errors.go).                    *)
(***************************************************************************)
\* &ValidationError{Field: field, ...}: it has an Is method and no Unwrap
ValidationError(field) == <<[type |-> "ValidationError", status |-> 0, field |-> field]>>

\* a *MultiError as an error value: it has neither Is nor Unwrap, so the
\* chain errors.Is walks ends at it
MultiError(Errors) == <<[type |-> "MultiError", status |-> 0, Errors |-> Errors]>>

\* (*MultiError).Add: the Errors field after the call
Add(Errors, err) == IF err # Nil THEN Append(Errors, err) ELSE Errors

HasErrors(Errors) == Len(Errors) > 0

\* (*MultiError).ErrorOrNil that never collapses to the inner error
ErrorOrNilNoCollapse(Errors) ==
    IF ~HasErrors(Errors) THEN Nil ELSE MultiError(Errors)

\* (*MultiError).ErrorOrNil
ErrorOrNil(Errors) ==
    IF ~HasErrors(Errors) THEN Nil
    ELSE IF Len(Errors) = 1 THEN Errors[1]
    ELSE MultiError(Errors)

\* most errors added to one MultiError
MaxErrors == 3

\* what Add is called with: nil, validation errors, a wrapped API error
AddInputs ==
    { Nil, ValidationError("namespace"), ValidationError("name"), APIError(404) }

\* errs := &MultiError{}; then Add and ErrorOrNil in any order.
MultiErrorInit ==
    /\ ClientInit
    /\ fn = ""
    /\ arg = << >>
    /\ ret = << >>
    /\ errs = << >>

AddOp(err) ==
    /\ Len(errs) < MaxErrors
    /\ fn' = "MultiError.Add"
    /\ arg' = err
    /\ errs' = Add(errs, err)
    /\ UNCHANGED <<ret, client>>

ErrorOrNilOp ==
    /\ fn' = "MultiError.ErrorOrNil"
    /\ arg' = << >>
    /\ ret' = ErrorOrNil(errs)
    /\ UNCHANGED <<errs, client>>

MultiErrorNext ==
    \/ \E err \in AddInputs : AddOp(err)
    \/ ErrorOrNilOp

MultiErrorSpec == MultiErrorInit /\ [][MultiErrorNext]_vars


(***************************************************************************)
(* Parameter validation of the services (validateModuleParams,             *)
(* validateProviderParams, validatePolicyParams).                          *)
(***************************************************************************)
isAlphaNumeric(r) == r \in LowerAlpha \/ r \in UpperAlpha \/ r \in Digits

isValidNamespace(namespace) ==
    \A i \in 1..Len(namespace) :
        isAlphaNumeric(namespace[i]) \/ namespace[i] = "-" \/ namespace[i] = "_"

isValidModuleName(name) ==
    \A i \in 1..Len(name) : isAlphaNumeric(name[i]) \/ name[i] = "-" \/ name[i] = "_"

isValidPolicyName(name) ==
    \A i \in 1..Len(name) : isAlphaNumeric(name[i]) \/ name[i] = "-" \/ name[i] = "_"

isValidProviderName(provider) ==
    \A i \in 1..Len(provider) : provider[i] \in LowerAlpha \/ provider[i] = "-"

\* isValidVersion: three dot-separated runs of digits after an optional v,
\* the third one cut at its first dash when that is not its first character
isValidVersion(version) ==
    IF version = << >> THEN FALSE
    ELSE LET parts == Split(TrimPrefix(version, <<"v">>), ".")
             part(i) == IF i = 3 /\ Index(parts[3], "-") > 0
                        THEN Upto(parts[3], Index(parts[3], "-"))
                        ELSE parts[i]
         IN  /\ Len(parts) = 3
             /\ \A i \in 1..3 : \A j \in 1..Len(part(i)) : part(i)[j] \in Digits

\* one if / else-if pair of a validate function: the ValidationError it
\* adds for the field, or nil
CheckField(field, value, valid) ==
    IF value = << >> \/ ~valid THEN ValidationError(field) ELSE Nil

\* validateModuleParams: the Errors it has collected when it returns
validateModuleParamsErrors(namespace, name, provider, version) ==
    LET e1 == Add(<< >>, CheckField("namespace", namespace, isValidNamespace(namespace)))
        e2 == Add(e1, CheckField("name", name, isValidModuleName(name)))
        e3 == Add(e2, CheckField("provider", provider, isValidProviderName(provider)))
    IN  Add(e3, IF version # << >> /\ ~isValidVersion(version)
                THEN ValidationError("version") ELSE Nil)

\* validateProviderParams: the Errors it has collected when it returns
validateProviderParamsErrors(namespace, name) ==
    LET e1 == Add(<< >>, CheckField("namespace", namespace, isValidNamespace(namespace)))
    IN  Add(e1, CheckField("name", name, isValidProviderName(name)))

\* validatePolicyParams: the Errors it has collected when it returns
validatePolicyParamsErrors(namespace, name, version) ==
    LET e1 == Add(<< >>, CheckField("namespace", namespace, isValidNamespace(namespace)))
        e2 == Add(e1, CheckField("name", name, isValidPolicyName(name)))
    IN  Add(e2, CheckField("version", version, isValidVersion(version)))

validateModuleParams(namespace, name, provider, version) ==
    ErrorOrNil(validateModuleParamsErrors(namespace, name, provider, version))
validateProviderParams(namespace, name) ==
    ErrorOrNil(validateProviderParamsErrors(namespace, name))
validatePolicyParams(namespace, name, version) ==
    ErrorOrNil(validatePolicyParamsErrors(namespace, name, version))

\* the parameters tried: "", "a", "A_" and "a@" for namespace and name,
\* "", "a", "a-" and "A" for the provider, "", "1.0.0", "v1.0.0-a", "1.0"
\* and "1.0.0-a.1" for the version
NameParams == { << >>, <<"a">>, <<"A", "_">>, <<"a", "@">> }
ProviderParams == { << >>, <<"a">>, <<"a", "-">>, <<"A">> }
VersionParams ==
    { << >>, Str1_0_0, <<"v">> \o Str1_0_0 \o <<"-", "a">>, <<"1", ".", "0">>,
      Str1_0_0 \o <<"-", "a", ".", "1">> }
Params ==
    [namespace : NameParams, name : NameParams, provider : ProviderParams,
     version : VersionParams]

\* A validate function is called on parameters.
ParamsInit ==
    /\ ClientInit
    /\ fn = ""
    /\ arg \in Params
    /\ ret = << >>
    /\ errs = << >>

validateModuleParamsOp ==
    /\ fn' = "validateModuleParams"
    /\ errs' = validateModuleParamsErrors(arg.namespace, arg.name, arg.provider, arg.version)
    /\ ret' = ErrorOrNil(errs')
    /\ UNCHANGED <<arg, client>>

validateProviderParamsOp ==
    /\ fn' = "validateProviderParams"
    /\ errs' = validateProviderParamsErrors(arg.namespace, arg.name)
    /\ ret' = ErrorOrNil(errs')
    /\ UNCHANGED <<arg, client>>

validatePolicyParamsOp ==
    /\ fn' = "validatePolicyParams"
    /\ errs' = validatePolicyParamsErrors(arg.namespace, arg.name, arg.version)
    /\ ret' = ErrorOrNil(errs')
    /\ UNCHANGED <<arg, client>>

ParamsNext ==
    \/ validateModuleParamsOp
    \/ validateProviderParamsOp
    \/ validatePolicyParamsOp

ParamsSpec == ParamsInit /\ [][ParamsNext]_vars


(***************************************************************************)
(* Identifier parsers (ParseModuleID, ParsePolicyID, ExtractProviderInfo). *)
(***************************************************************************)
NameChars == LowerAlpha \cup UpperAlpha \cup Digits \cup {"-", "_"}
ProviderChars == LowerAlpha \cup Digits \cup {"-"}


\* a pattern ^[first][rest]*$ : one character of first, the longest run of
\* characters of rest, and then the end of the text
Match(s, first, rest) ==
    /\ s # << >>
    /\ Head(s) \in first
    /\ Len(Run(Tail(s), rest)) = Len(Tail(s))

\* validNamePattern without its final $: a match need not reach the end
validNamePatternUnanchored(s) ==
    s # << >> /\ Head(s) \in LowerAlpha \cup UpperAlpha \cup Digits

\* validNamePattern.MatchString: ^[a-zA-Z0-9][a-zA-Z0-9\-_]*$
validNamePattern(s) == Match(s, LowerAlpha \cup UpperAlpha \cup Digits, NameChars)

\* validProviderPattern.MatchString: ^[a-z][a-z0-9\-]*$
validProviderPattern(s) == Match(s, LowerAlpha, ProviderChars)

RegistryPrefix == <<"r", "e", "g", "i", "s", "t", "r", "y", ":", "/", "/">>
ProvidersPrefix == <<"p", "r", "o", "v", "i", "d", "e", "r", "s", "/">>
PoliciesPrefix == <<"p", "o", "l", "i", "c", "i", "e", "s", "/">>
StrProviders == <<"p", "r", "o", "v", "i", "d", "e", "r", "s">>
StrPolicies == <<"p", "o", "l", "i", "c", "i", "e", "s">>
StrName == <<"n", "a", "m", "e">>
StrVersions == <<"v", "e", "r", "s", "i", "o", "n", "s">>
StrVersion == <<"v", "e", "r", "s", "i", "o", "n">>

\* the named results of the parsers at a return statement
ModuleID(namespace, name, provider, version, err) ==
    [namespace |-> namespace, name |-> name, provider |-> provider, version |-> version,
     err |-> err]
PolicyID(namespace, name, version, err) ==
    [namespace |-> namespace, name |-> name, version |-> version, err |-> err]
ProviderInfo(namespace, name, version, err) ==
    [namespace |-> namespace, name |-> name, version |-> version, err |-> err]

\* ParseModuleID
ParseModuleID(moduleID) ==
    LET parts == Split(moduleID, "/")
        namespace == TrimSpace(parts[1])
        name == TrimSpace(parts[2])
        provider == TrimSpace(parts[3])
        version == TrimSpace(parts[4])
        returned(err) == ModuleID(namespace, name, provider, version, err)
    IN  IF moduleID = << >>
        THEN ModuleID(<< >>, << >>, << >>, << >>, Errorf("module ID cannot be empty"))
        ELSE IF Len(parts) # 4
        THEN ModuleID(<< >>, << >>, << >>, << >>, Errorf("invalid module ID format"))
        ELSE IF namespace = << >> \/ name = << >> \/ provider = << >> \/ version = << >>
        THEN returned(Errorf("module ID components cannot be empty"))
        ELSE IF ~validNamePattern(namespace) THEN returned(Errorf("invalid namespace format"))
        ELSE IF ~validNamePattern(name) THEN returned(Errorf("invalid module name format"))
        ELSE IF ~validProviderPattern(provider) THEN returned(Errorf("invalid provider format"))
        ELSE returned(ValidateProviderVersion(version))

\* ParsePolicyID without the removal of the "policies/" prefix
ParsePolicyIDKeepsPrefix(policyID) ==
    LET trimmed == TrimSpace(policyID)
        parts == Split(trimmed, "/")
        namespace == TrimSpace(parts[1])
        name == TrimSpace(parts[2])
        version == TrimSpace(parts[3])
        returned(err) == PolicyID(namespace, name, version, err)
    IN  IF policyID = << >>
        THEN PolicyID(<< >>, << >>, << >>, Errorf("policy ID cannot be empty"))
        ELSE IF Len(parts) # 3
        THEN PolicyID(<< >>, << >>, << >>, Errorf("invalid policy ID format"))
        ELSE IF namespace = << >> \/ name = << >> \/ version = << >>
        THEN returned(Errorf("policy ID components cannot be empty"))
        ELSE IF ~validNamePattern(namespace) THEN returned(Errorf("invalid namespace format"))
        ELSE IF ~validNamePattern(name) THEN returned(Errorf("invalid policy name format"))
        ELSE returned(ValidateProviderVersion(version))

\* ParsePolicyID
ParsePolicyID(policyID) ==
    LET trimmed == TrimSpace(TrimPrefix(policyID, PoliciesPrefix))
        parts == Split(trimmed, "/")
        namespace == TrimSpace(parts[1])
        name == TrimSpace(parts[2])
        version == TrimSpace(parts[3])
        returned(err) == PolicyID(namespace, name, version, err)
    IN  IF policyID = << >>
        THEN PolicyID(<< >>, << >>, << >>, Errorf("policy ID cannot be empty"))
        ELSE IF Len(parts) # 3
        THEN PolicyID(<< >>, << >>, << >>, Errorf("invalid policy ID format"))
        ELSE IF namespace = << >> \/ name = << >> \/ version = << >>
        THEN returned(Errorf("policy ID components cannot be empty"))
        ELSE IF ~validNamePattern(namespace) THEN returned(Errorf("invalid namespace format"))
        ELSE IF ~validNamePattern(name) THEN returned(Errorf("invalid policy name format"))
        ELSE returned(ValidateProviderVersion(version))

\* ExtractProviderInfo
ExtractProviderInfo(uri) ==
    LET trimmed == TrimSpace(TrimPrefix(TrimPrefix(uri, RegistryPrefix), ProvidersPrefix))
        parts == Split(trimmed, "/")
        n == Len(parts)
        namespace == parts[1]
        marked == parts[2] = StrProviders \/ parts[2] = StrName
        name == IF n <= 3 THEN parts[2]
                ELSE IF marked THEN parts[3]
                ELSE parts[2]
        version == IF n = 2 THEN << >>
                   ELSE IF n = 3 THEN parts[3]
                   ELSE IF marked
                        THEN (IF n > 4 /\ (parts[4] = StrVersions \/ parts[4] = StrVersion)
                              THEN parts[5] ELSE << >>)
                   ELSE parts[3]
        returned(err) == ProviderInfo(namespace, name, version, err)
    IN  IF uri = << >>
        THEN ProviderInfo(<< >>, << >>, << >>, Errorf("provider URI cannot be empty"))
        ELSE IF n < 2
        THEN ProviderInfo(<< >>, << >>, << >>, Errorf("invalid provider URI format"))
        ELSE IF namespace = << >>
        THEN ProviderInfo(<< >>, << >>, << >>, Errorf("namespace cannot be empty in URI"))
        ELSE IF name = << >> THEN returned(Errorf("name cannot be empty in URI"))
        ELSE IF ~validNamePattern(namespace)
        THEN returned(Errorf("invalid namespace format in URI"))
        ELSE IF ~validProviderPattern(name)
        THEN returned(Errorf("invalid provider name format in URI"))
        ELSE IF version # << >> /\ version # Latest
        THEN returned(ValidateProviderVersion(version))
        ELSE returned(Nil)

\* most segments of an identifier that is parsed
MaxSegments == 5

\* what an identifier may start with: nothing, or a prefix a parser strips
IDPrefixes == { << >>, PoliciesPrefix, ProvidersPrefix, RegistryPrefix }

\* the segments tried at each position
FirstSegments ==
    { << >>,
      <<"a">>,
      <<" ", "a">>,
      <<"a", "@">>,
      <<"p", "o", "l", "i", "c", "i", "e", "s">> }
SecondSegments ==
    { << >>,
      <<"a">>,
      <<"a", " ">>,
      <<"A">>,
      <<"p", "r", "o", "v", "i", "d", "e", "r", "s">> }
ThirdSegments ==
    { << >>,
      <<"a">>,
      <<"A">>,
      <<"1", ".", "0", ".", "0">>,
      <<"1", ".", "0">>,
      <<"v", "e", "r", "s", "i", "o", "n", "s">> }
FourthSegments ==
    { << >>,
      <<"1", ".", "0", ".", "0">>,
      <<"1", ".", "0", ".", "0", " ">>,
      <<"1", ".", "0">>,
      <<"v", "e", "r", "s", "i", "o", "n", "s">> }
LastSegments ==
    { <<"1", ".", "0", ".", "0">>,
      <<"1", ".", "0">> }
SegmentsAt(i) ==
    CASE i = 1 -> FirstSegments
      [] i = 2 -> SecondSegments
      [] i = 3 -> ThirdSegments
      [] i = 4 -> FourthSegments
      [] OTHER -> LastSegments

RECURSIVE SegmentLists(_)
SegmentLists(n) ==
    IF n = 0 THEN {<< >>}
    ELSE {Append(l, s) : l \in SegmentLists(n - 1), s \in SegmentsAt(n)}

IDInputs ==
    {<< >>} \cup
    { prefix \o Join(l, "/") :
        prefix \in IDPrefixes, l \in UNION {SegmentLists(n) : n \in 1..MaxSegments} }

\* A parser is called on an identifier.
ParseInit ==
    /\ ClientInit
    /\ fn = ""
    /\ arg \in IDInputs
    /\ ret = << >>
    /\ errs = << >>

ParseModuleIDOp ==
    /\ fn' = "ParseModuleID"
    /\ ret' = ParseModuleID(arg)
    /\ UNCHANGED <<arg, errs, client>>

ParsePolicyIDOp ==
    /\ fn' = "ParsePolicyID"
    /\ ret' = ParsePolicyID(arg)
    /\ UNCHANGED <<arg, errs, client>>

ExtractProviderInfoOp ==
    /\ fn' = "ExtractProviderInfo"
    /\ ret' = ExtractProviderInfo(arg)
    /\ UNCHANGED <<arg, errs, client>>

ParseNext ==
    \/ ParseModuleIDOp
    \/ ParsePolicyIDOp
    \/ ExtractProviderInfoOp

ParseSpec == ParseInit /\ [][ParseNext]_vars


(***************************************************************************)
(* The operations of the services, up to their first request: each one     *)
(* validates its input and returns the error, or goes on to Client.get.    *)
(***************************************************************************)
\* a nil options pointer
NilOptions == [nil |-> TRUE]

\* (*ModuleListOptions).Validate
ModuleListOptionsValidate(o) ==
    IF o = NilOptions THEN Nil
    ELSE IF o.Offset < 0 THEN ValidationError("Offset")
    ELSE IF o.Limit < 0 \/ o.Limit > 100 THEN ValidationError("Limit")
    ELSE IF o.Provider # << >> /\ ~isValidProviderName(o.Provider)
    THEN ValidationError("Provider")
    ELSE Nil

isValidDocCategory(category) ==
    category \in {<<"r", "e", "s", "o", "u", "r", "c", "e", "s">>, <<"d", "a", "t", "a", "-", "s", "o", "u", "r", "c", "e", "s">>, <<"f", "u", "n", "c", "t", "i", "o", "n", "s">>, <<"g", "u", "i", "d", "e", "s">>, <<"o", "v", "e", "r", "v", "i", "e", "w">>}

isValidLanguage(language) == language \in {<<"h", "c", "l">>, <<"t", "e", "r", "r", "a", "f", "o", "r", "m">>, <<"j", "s", "o", "n">>}

\* (*ProviderDocListOptions).Validate
ProviderDocListOptionsValidate(o) ==
    IF o = NilOptions THEN ValidationError("options")
    ELSE IF o.ProviderVersionID = << >> THEN ValidationError("ProviderVersionID")
    ELSE IF o.Category # << >> /\ ~isValidDocCategory(o.Category)
    THEN ValidationError("Category")
    ELSE IF o.Language # << >> /\ ~isValidLanguage(o.Language)
    THEN ValidationError("Language")
    ELSE IF o.Page < 0 THEN ValidationError("Page")
    ELSE Nil

\* ModulesService.Search: the checks of query and offset
ModulesSearchValidate(in) ==
    IF in.query = << >> THEN ValidationError("query")
    ELSE IF in.offset < 0 THEN ValidationError("offset")
    ELSE Nil

\* ModulesService.GetByID: the checks, then those of Get on the parts
ModulesGetByIDValidate(in) ==
    LET parts == Split(in.id, "/")
    IN  IF in.id = << >> THEN ValidationError("moduleID")
        ELSE IF Len(parts) # 4 THEN ValidationError("moduleID")
        ELSE validateModuleParams(parts[1], parts[2], parts[3], parts[4])

\* ProvidersService.GetVersion: validateProviderParams, then the version
ProvidersGetVersionValidate(in) ==
    IF validateProviderParams(in.namespace, in.name) # Nil
    THEN validateProviderParams(in.namespace, in.name)
    ELSE IF ValidateProviderVersion(in.version) # Nil THEN ValidationError("version")
    ELSE Nil

\* ProvidersService.GetVersionID: validateProviderParams, then the version
\* unless it is "" or "latest" (GetLatest is asked for it then)
ProvidersGetVersionIDValidate(in) ==
    IF validateProviderParams(in.namespace, in.name) # Nil
    THEN validateProviderParams(in.namespace, in.name)
    ELSE IF in.version = << >> \/ in.version = Latest THEN Nil
    ELSE IF ValidateProviderVersion(in.version) # Nil THEN ValidationError("version")
    ELSE Nil

\* PoliciesService.GetByID: the checks, then those of Get on the parsed fields
PoliciesGetByIDValidate(in) ==
    LET parsed == ParsePolicyID(in.id)
    IN  IF in.id = << >> THEN ValidationError("policyID")
        ELSE IF parsed.err # Nil THEN ValidationError("policyID")
        ELSE validatePolicyParams(parsed.namespace, parsed.name, parsed.version)

\* PoliciesService.Search: the check of query
PoliciesSearchValidate(in) ==
    IF in.query = << >> THEN ValidationError("query") ELSE Nil

Operations ==
    { "ModulesService.Get", "ModulesService.GetByID", "ModulesService.List",
      "ModulesService.Search", "ModulesService.GetLatest",
      "ProvidersService.Get", "ProvidersService.GetVersion",
      "ProvidersService.GetVersionID", "ProvidersService.ListDocsV2",
      "PoliciesService.Get", "PoliciesService.GetByID", "PoliciesService.Search" }

\* what an operation does with its input before anything else: the error
\* it returns at once, or nil when it goes on to s.client.get
Validation(op, in) ==
    CASE op = "ModulesService.Get" ->
            validateModuleParams(in.namespace, in.name, in.provider, in.version)
      [] op = "ModulesService.GetByID" -> ModulesGetByIDValidate(in)
      [] op = "ModulesService.List" -> ModuleListOptionsValidate(in)
      [] op = "ModulesService.Search" -> ModulesSearchValidate(in)
      [] op = "ModulesService.GetLatest" ->
            validateModuleParams(in.namespace, in.name, in.provider, << >>)
      [] op = "ProvidersService.Get" -> validateProviderParams(in.namespace, in.name)
      [] op = "ProvidersService.GetVersion" -> ProvidersGetVersionValidate(in)
      [] op = "ProvidersService.GetVersionID" -> ProvidersGetVersionIDValidate(in)
      [] op = "ProvidersService.ListDocsV2" -> ProviderDocListOptionsValidate(in)
      [] op = "PoliciesService.Get" ->
            validatePolicyParams(in.namespace, in.name, in.version)
      [] op = "PoliciesService.GetByID" -> PoliciesGetByIDValidate(in)
      [] op = "PoliciesService.Search" -> PoliciesSearchValidate(in)

\* the inputs tried: parameters with no, one or two invalid fields ...
CallParams ==
    { in \in Params :
        /\ in.namespace \in {<<"a">>, <<"a", "@">>}
        /\ in.name \in {<<"a">>, << >>}
        /\ in.provider = <<"a">>
        /\ in.version \in {Str1_0_0, <<"1", ".", "0">>}
        /\ in.version = Str1_0_0 \/ (in.namespace = <<"a">> /\ in.name = <<"a">>) }
\* ... identifiers "", a/a/a/1.0.0, a/a/1.0.0 and a@/a/1.0.0 ...
CallIDs ==
    { [id |-> << >>], [id |-> <<"a", "/", "a", "/", "a", "/", "1", ".", "0", ".", "0">>], [id |-> <<"a", "/", "a", "/", "1", ".", "0", ".", "0">>],
      [id |-> <<"a", "@", "/", "a", "/", "1", ".", "0", ".", "0">>],
      [id |-> <<"a", "/", "a", "/", "a", "/", "1", ".", "0", ".", "0", "-", "a", ".", "1">>] }
\* ... queries with an offset ...
CallQueries ==
    { [query |-> << >>, offset |-> 0], [query |-> <<"a">>, offset |-> -1],
      [query |-> <<"a">>, offset |-> 0] }
\* ... and options
CallModuleListOptions ==
    { NilOptions, [Offset |-> -1, Limit |-> 0, Provider |-> << >>],
      [Offset |-> 0, Limit |-> 101, Provider |-> << >>],
      [Offset |-> 0, Limit |-> 100, Provider |-> <<"a">>] }
CallDocListOptions ==
    { NilOptions,
      [ProviderVersionID |-> <<"1">>, Category |-> <<"x">>, Language |-> << >>, Page |-> 0],
      [ProviderVersionID |-> <<"1">>, Category |-> << >>, Language |-> <<"h", "c", "l">>, Page |-> 0] }

Inputs(op) ==
    CASE op \in {"ModulesService.GetByID", "PoliciesService.GetByID"} -> CallIDs
      [] op \in {"ModulesService.Search", "PoliciesService.Search"} -> CallQueries
      [] op = "ModulesService.List" -> CallModuleListOptions
      [] op = "ProvidersService.ListDocsV2" -> CallDocListOptions
      [] OTHER -> CallParams

\* an operation that never returns before its request
RejectsNothing(err) == FALSE

\* if err := validate...(...); err != nil { return nil, err }
Rejects(err) == err # Nil

\* A requester calls an operation: it is rejected with the validation error
\* at once, or the operation calls Client.get with a fresh context.
ServiceCall(p, op, in) ==
    /\ p \in Requesters
    /\ pc[p] = "idle"
    /\ fn' = op
    /\ arg' = in
    /\ UNCHANGED errs
    /\ \E err \in {Validation(op, in)} :
           /\ ret' = err
           /\ IF Rejects(err)
              THEN /\ result' = [result EXCEPT ![p] = err]
                   /\ UNCHANGED <<limiter, pc, inRequest, cancelled, timer, woke, attempt,
                                  lastResp, wait, consumed, only500, tryRet, window>>
              ELSE StartCall(p, TRUE)

\* Time passes, and a requester whose context is never cancelled calls the
\* operations one after the other.
ServiceNext ==
    \/ Tick
    \/ \E p \in Requesters :
         \/ \E op \in Operations : \E in \in Inputs(op) : ServiceCall(p, op, in)
         \/ WaitTryAcquire(p)
         \/ WaitTimeUntilNextToken(p)
         \/ WaitTimerFired(p)
         \/ StartAttempt(p)
         \/ FinishAttempt(p)
         \/ BackoffTimerFired(p)

ServiceSpec == Init /\ [][ServiceNext]_vars

(***************************************************************************)
(* refill as a function: a limiter of any rate and period is accessed.     *)
(***************************************************************************)
MaxRate == 100
MaxPeriod == 100

\* NewRateLimiter(maxRequests, period) with some tokens taken, in time units
\* of period / MaxPeriod; elapsed is the time since lastRefill at the access
RefillInputs ==
    { [tokens |-> tok, maxTokens |-> maxRequests, refillRate |-> maxRequests,
       refillPeriod |-> period, elapsed |-> el] :
        maxRequests \in {MaxRequests, MaxRate}, period \in {RefillPeriod, MaxPeriod},
        tok \in {0, 1, MaxRequests}, el \in 0..(MaxPeriod + 1) }

RefillInit ==
    /\ ClientInit
    /\ fn = ""
    /\ arg \in RefillInputs
    /\ ret = << >>
    /\ errs = << >>

\* r.refill() at lastRefill + elapsed
RefillOp ==
    /\ fn' = "refill"
    /\ ret' = refillOf(arg, arg.elapsed)
    /\ UNCHANGED <<arg, errs, client>>

RefillNext == RefillOp

RefillSpec == RefillInit /\ [][RefillNext]_vars

(***************************************************************************)
(* The limiter with one caller, which calls Wait again and again.          *)
(***************************************************************************)
Solo == "c1"

SoloNext ==
    \/ Tick
    \/ StartWait(Solo)
    \/ Cancel(Solo)
    \/ WaitTryAcquire(Solo)
    \/ WaitTimeUntilNextToken(Solo)
    \/ WaitCtxDone(Solo)
    \/ WaitTimerFired(Solo)

\* Time passes and the scheduler runs the caller when it can run; nothing
\* forces it to call Wait or to cancel.
SoloSpec ==
    /\ Init /\ [][SoloNext]_vars
    /\ WF_vars(Tick)
    /\ WF_vars(WaitStep(Solo))

(***************************************************************************)
(* Search: relevance of a module or policy for a query, and the sort of    *)
(* the results.  A relevance is counted in fourteenths, so that 0.5 and    *)
(* the download score 3/7 of ten downloads are integers.                   *)
(***************************************************************************)
One == 14
Half == One \div 2

LowerSeq == <<"a", "b", "c", "d", "e", "f", "g", "h", "i", "j", "k", "l", "m",
              "n", "o", "p", "q", "r", "s", "t", "u", "v", "w", "x", "y", "z">>
UpperSeq == <<"A", "B", "C", "D", "E", "F", "G", "H", "I", "J", "K", "L", "M",
              "N", "O", "P", "Q", "R", "S", "T", "U", "V", "W", "X", "Y", "Z">>

\* strings.ToLower, on ASCII
ToLower(s) ==
    [i \in 1..Len(s) |->
        IF s[i] \in UpperAlpha THEN LowerSeq[CHOOSE k \in 1..26 : UpperSeq[k] = s[i]]
        ELSE s[i]]

\* strings.Contains
Contains(s, substr) ==
    \E i \in 0..(Len(s) - Len(substr)) : SubSeq(s, i + 1, i + Len(substr)) = substr

\* strings.Fields: the maximal runs of characters that are not white space
RECURSIVE Fields(_)
Fields(s) ==
    IF s = << >> THEN << >>
    ELSE IF s[1] \in Space THEN Fields(Tail(s))
    ELSE The({<<field>> \o Fields(From(s, Len(field))) :
                 field \in {Run(s, {Ascii[k] : k \in 1..Len(Ascii)} \ Space)}})

\* the loop over queryParts: every part is in text
AllPartsIn(text, queryParts) ==
    \A i \in 1..Len(queryParts) : Contains(text, queryParts[i])

\* log10 of part_006: the divisions by 10, plus (x - 1) / 9 for what is
\* left; on a power of ten nothing is left
RECURSIVE log10(_)
log10(x) == IF x >= 10 THEN 1 + log10(x \div 10) ELSE 0

logScale(value, minIn, maxIn, minOut, maxOut) ==
    IF value <= minIn THEN minOut
    ELSE IF value >= maxIn THEN maxOut
    ELSE minOut + ((log10(value) - log10(minIn)) * (maxOut - minOut))
                      \div (log10(maxIn) - log10(minIn))

\* the relevance SearchWithRelevance computes for mod; Days is
\* timeSince(mod.PublishedAt) in days.  The sums are exact in float64 except
\* for the download score of ten downloads, 3 * (1 / 7), which the inputs
\* only combine with a module published long ago.
ModuleRelevance(mod, query) ==
    LET queryLower == ToLower(query)
        queryParts == Fields(queryLower)
        nameLower == ToLower(mod.Name)
        descLower == ToLower(mod.Description)
    IN  (IF nameLower = queryLower THEN 10 * One
         ELSE IF Contains(nameLower, queryLower) THEN 5 * One
         ELSE IF AllPartsIn(nameLower, queryParts) THEN 3 * One
         ELSE 0)
      + (IF Contains(descLower, queryLower) THEN 3 * One
         ELSE IF AllPartsIn(descLower, queryParts) THEN 3 * Half
         ELSE 0)
      + (IF Contains(ToLower(mod.Namespace), queryLower) THEN 2 * One ELSE 0)
      + (IF Contains(ToLower(mod.Provider), queryLower) THEN One ELSE 0)
      + (IF mod.Verified THEN 2 * One ELSE 0)
      + (IF mod.Downloads > 0 THEN logScale(mod.Downloads, 1, 10000000, 0, 3 * One) ELSE 0)
      + (IF mod.Days < 30 THEN One ELSE IF mod.Days < 90 THEN Half ELSE 0)

calculatePolicyMatchScore(policy, queryLower, queryParts) ==
    LET nameLower == ToLower(policy.Attributes.Name)
        titleLower == ToLower(policy.Attributes.Title)
        namespaceLower == ToLower(policy.Attributes.Namespace)
    IN  (IF nameLower = queryLower THEN 10 * One
         ELSE IF Contains(nameLower, queryLower) THEN 5 * One
         ELSE IF AllPartsIn(nameLower, queryParts) THEN 3 * One
         ELSE 0)
      + (IF Contains(titleLower, queryLower) THEN 3 * One
         ELSE IF AllPartsIn(titleLower, queryParts) THEN 3 * Half
         ELSE 0)
      + (IF Contains(namespaceLower, queryLower) THEN 2 * One ELSE 0)
      + (IF policy.Attributes.Verified THEN 2 * One ELSE 0)
      + (IF policy.Attributes.Downloads > 10000 THEN 3 * One
         ELSE IF policy.Attributes.Downloads > 1000 THEN 2 * One
         ELSE IF policy.Attributes.Downloads > 100 THEN One
         ELSE 0)

\* the orders of the indices S of x in which relevance never increases and
\* equal relevances keep the order of x
RECURSIVE StableOrder(_, _)
StableOrder(x, S) ==
    IF S = {} THEN << >>
    ELSE The({<<i>> \o StableOrder(x, S \ {i}) :
                 i \in {CHOOSE i \in S : \A j \in S :
                           \/ x[i].Relevance > x[j].Relevance
                           \/ x[i].Relevance = x[j].Relevance /\ i <= j}})

\* every order of the indices S
RECURSIVE Orders(_)
Orders(S) ==
    IF S = {} THEN {<< >>}
    ELSE UNION {{<<i>> \o o : o \in Orders(S \ {i})} : i \in S}

\* every order of the indices S of x in which relevance never increases
RECURSIVE SortedOrders(_, _)
SortedOrders(x, S) ==
    IF S = {} THEN {<< >>}
    ELSE LET first == {i \in S : \A j \in S : x[i].Relevance >= x[j].Relevance}
         IN  {o \o rest : o \in Orders(first), rest \in SortedOrders(x, S \ first)}

\* x in the order o of its indices
Reordered(x, o) == [k \in 1..Len(x) |-> x[o[k]]]

\* a sort that leaves the slice as it is
sortSliceNot(x) == {x}

\* sort.SliceStable with the same less
sortSliceStable(x) == {Reordered(x, StableOrder(x, 1..Len(x)))}

\* sort.Slice(x, func(i, j) { return x[i].Relevance > x[j].Relevance }): the
\* slices it may leave.  It sorts up to maxInsertion elements by insertion,
\* which keeps equal elements in order, and longer slices by a
\* pattern-defeating quicksort that "is not guaranteed to be stable".
maxInsertion == 12

sortSlice(x) ==
    IF Len(x) <= maxInsertion THEN sortSliceStable(x)
    ELSE {Reordered(x, o) : o \in SortedOrders(x, 1..Len(x))}


(***************************************************************************)
(* The searches that rank, and the traversals of the pages of the remote.  *)
(* A call keeps its locals in ret until it returns.                        *)
(***************************************************************************)
maxPages == 100

\* a response of the remote to the request of one page
Page(data, nextPage) == [Data |-> data, NextPage |-> nextPage, err |-> Nil]
FailedPage == [Data |-> << >>, NextPage |-> 0, err |-> APIError(500)]

\* the remote: source[n] answers the request of page n, and a page it does
\* not have is empty and the last
Respond(source, page) ==
    IF page \in 1..Len(source) THEN source[page] ELSE Page(<< >>, 0)

\* the locals of a traversal that is in its loop, and of one that has left it
Looping(page, pageCount, all, fetches) ==
    [pc |-> "loop", page |-> page, pageCount |-> pageCount, all |-> all,
     fetches |-> fetches]
Broke(r) == [r EXCEPT !.pc = "break"]
\* a loop that tests pageCount <= maxPages
ContinueOnceMore(r, nextPage) ==
    [r EXCEPT !.page = nextPage, !.pageCount = r.pageCount + 1,
              !.pc = IF r.pageCount + 1 <= maxPages THEN "loop" ELSE "break"]
\* the loop's pageCount++ and its test pageCount < maxPages
Continue(r, nextPage) ==
    [r EXCEPT !.page = nextPage, !.pageCount = r.pageCount + 1,
              !.pc = IF r.pageCount + 1 < maxPages THEN "loop" ELSE "break"]
\* return value, err
ReturnOf(r, value, err) ==
    [pc |-> "returned", page |-> r.page, pageCount |-> r.pageCount, all |-> r.all,
     fetches |-> r.fetches, value |-> value, err |-> err]
NoLocals == Looping(0, 0, << >>, << >>)

\* PoliciesService.Search, to the loop
PoliciesSearchCall ==
    /\ fn = ""
    /\ arg.op = "PoliciesService.Search"
    /\ fn' = arg.op
    /\ ret' = IF arg.query = << >>
              THEN ReturnOf(NoLocals, << >>, ValidationError("query"))
              ELSE Looping(1, 0, << >>, << >>)
    /\ UNCHANGED <<arg, errs, client>>

\* PoliciesService.Search: one turn of the loop, s.List of the page
PoliciesSearchFetch ==
    /\ fn = "PoliciesService.Search"
    /\ ret.pc = "loop"
    /\ ret' =
         IF ret.page < 0
         THEN ReturnOf(ret, << >>,
                       <<Err("failed to search policies")>> \o ValidationError("Page"))
         ELSE The({
           IF resp.err # Nil
           THEN ReturnOf(fetched, << >>,
                         <<Err("failed to search policies"), Err("failed to list policies")>>
                             \o resp.err)
           ELSE The({ IF resp.NextPage = 0 THEN Broke(appended)
                      ELSE Continue(appended, resp.NextPage) :
                          appended \in {[fetched EXCEPT !.all = ret.all \o resp.Data]} }) :
               <<resp, fetched>> \in
                   {<<Respond(arg.source, ret.page),
                      [ret EXCEPT !.fetches = Append(ret.fetches, ret.page)]>>} })
    /\ UNCHANGED <<fn, arg, errs, client>>

\* PoliciesService.Search after the loop: the policies that match, sorted
PolicySearchResults(allPolicies, query) ==
    The({ SelectSeq([i \in 1..Len(allPolicies) |->
                        [Policy |-> allPolicies[i],
                         Relevance |-> calculatePolicyMatchScore(allPolicies[i],
                                                                 queryLower, queryParts)]],
                    LAMBDA searchResult : searchResult.Relevance > 0) :
          <<queryLower, queryParts>> \in
              {The({<<lower, Fields(lower)>> : lower \in {ToLower(query)}})} })

PoliciesSearchRank ==
    /\ fn = "PoliciesService.Search"
    /\ ret.pc = "break"
    /\ \E matching \in {PolicySearchResults(ret.all, arg.query)} :
           \E searchResults \in sortSlice(matching) :
               ret' = ReturnOf(ret, searchResults, Nil)
    /\ UNCHANGED <<fn, arg, errs, client>>

\* ProvidersService.ListDocsV2, to the loop
ListDocsV2Call ==
    /\ fn = ""
    /\ arg.op = "ProvidersService.ListDocsV2"
    /\ fn' = arg.op
    /\ ret' = IF ProviderDocListOptionsValidate(arg.opts) # Nil
              THEN ReturnOf(NoLocals, << >>, ProviderDocListOptionsValidate(arg.opts))
              ELSE Looping(IF arg.opts.Page > 0 THEN arg.opts.Page ELSE 1, 0, << >>, << >>)
    /\ UNCHANGED <<arg, errs, client>>

\* ProvidersService.ListDocsV2: one turn of the loop, and the return that
\* follows the loop at once
ListDocsV2Fetch ==
    /\ fn = "ProvidersService.ListDocsV2"
    /\ ret.pc = "loop"
    /\ ret' =
         The({
           IF resp.err # Nil
           THEN ReturnOf(fetched, << >>,
                         <<Err("failed to list provider docs")>> \o resp.err)
           ELSE IF Len(resp.Data) = 0 THEN ReturnOf(fetched, fetched.all, Nil)
           ELSE The({
             IF arg.opts.Page > 0 \/ resp.NextPage = 0
             THEN ReturnOf(appended, appended.all, Nil)
             ELSE The({ IF next.pc = "loop" THEN next ELSE ReturnOf(next, next.all, Nil) :
                            next \in {Continue(appended, resp.NextPage)} }) :
                 appended \in {[fetched EXCEPT !.all = ret.all \o resp.Data]} }) :
               <<resp, fetched>> \in
                   {<<Respond(arg.source, ret.page),
                      [ret EXCEPT !.fetches = Append(ret.fetches, ret.page)]>>} })
    /\ UNCHANGED <<fn, arg, errs, client>>

\* ModulesService.SearchWithRelevance: Search, the relevance of each module
\* of the result, the sort
ModuleSearchResults(modules, query) ==
    [i \in 1..Len(modules) |->
        [Module |-> modules[i], Relevance |-> ModuleRelevance(modules[i], query)]]

SearchWithRelevance ==
    /\ fn = ""
    /\ arg.op = "ModulesService.SearchWithRelevance"
    /\ fn' = arg.op
    /\ IF ModulesSearchValidate(arg) # Nil
       THEN ret' = ReturnOf(NoLocals, << >>, ModulesSearchValidate(arg))
       ELSE IF arg.source[1].err # Nil
       THEN ret' = ReturnOf(NoLocals, << >>,
                            <<Err("failed to search modules")>> \o arg.source[1].err)
       ELSE \E scored \in {ModuleSearchResults(arg.source[1].Data, arg.query)} :
                \E searchResults \in sortSlice(scored) :
                    ret' = ReturnOf([NoLocals EXCEPT !.all = arg.source[1].Data,
                                                    !.fetches = <<1>>],
                                    searchResults, Nil)
    /\ UNCHANGED <<arg, errs, client>>

\* the inputs: policies, modules and provider docs of the remote
Policy(id, name, title, namespace, verified, downloads) ==
    [ID |-> id,
     Attributes |-> [Name |-> name, Title |-> title, Namespace |-> namespace,
                     Verified |-> verified, Downloads |-> downloads]]
Module(id, name, description, namespace, provider, verified, downloads, days) ==
    [ID |-> id, Name |-> name, Description |-> description, Namespace |-> namespace,
     Provider |-> provider, Verified |-> verified, Downloads |-> downloads,
     Days |-> days]
ProviderData(id) == [ID |-> id]

\* policies of which a query for "a" finds two of the same relevance twice
SomePolicies ==
    { Policy(1, <<"a">>, << >>, <<"c">>, FALSE, 0),
      Policy(2, <<"b", "a">>, <<"A">>, <<"c">>, FALSE, 0),
      Policy(3, <<"b", "-", "a">>, <<"a">>, <<"c">>, FALSE, 100),
      Policy(4, <<"c">>, << >>, <<"A">>, FALSE, 0),
      Policy(5, <<"c">>, << >>, <<"c">>, TRUE, 10),
      Policy(6, <<"c">>, << >>, <<"c">>, FALSE, 100) }

\* thirteen policies, more than sort.Slice sorts by insertion, a query for
\* "a" finds with the relevances 14, 13, 12, 12, 12, 10, 15, 4, 4, 3, 3, 2, 2
ThirteenPolicies ==
    <<Policy(1, <<"a">>, << >>, <<"c">>, TRUE, 1001),
      Policy(2, <<"a">>, << >>, <<"c">>, TRUE, 101),
      Policy(3, <<"a">>, << >>, <<"c">>, TRUE, 0),
      Policy(4, <<"a">>, << >>, <<"c">>, TRUE, 0),
      Policy(5, <<"a">>, << >>, <<"c">>, TRUE, 0),
      Policy(6, <<"a">>, << >>, <<"c">>, FALSE, 0),
      Policy(7, <<"a">>, << >>, <<"c">>, TRUE, 10001),
      Policy(8, <<"c">>, << >>, <<"c">>, TRUE, 1001),
      Policy(9, <<"c">>, << >>, <<"c">>, TRUE, 1001),
      Policy(10, <<"c">>, << >>, <<"c">>, TRUE, 101),
      Policy(11, <<"c">>, << >>, <<"c">>, TRUE, 101),
      Policy(12, <<"c">>, << >>, <<"c">>, TRUE, 0),
      Policy(13, <<"c">>, << >>, <<"c">>, TRUE, 0)>>

\* the policy of the remote's list at position id: every fiftieth is "a"
ListedPolicy(id) ==
    Policy(id, IF id % 50 = 1 THEN <<"a">> ELSE <<"c">>, << >>, <<"c">>, FALSE, 0)
PoliciesFrom(first, last) == [k \in 1..(last - first + 1) |-> ListedPolicy(first + k - 1)]

\* the pages of the remote: of 50, 50 and 10 policies; two pages that name
\* each other as the next
LongPolicySources ==
    { <<Page(PoliciesFrom(1, 50), 2), Page(PoliciesFrom(51, 100), 3),
        Page(PoliciesFrom(101, 110), 0)>>,
      <<Page(PoliciesFrom(2, 2), 2), Page(PoliciesFrom(3, 3), 1)>> }

\* an empty page that names a next page; a next page below zero; a page
\* that fails; an empty list
PagedPolicySources ==
    { <<Page(PoliciesFrom(1, 1), 2), Page(<< >>, 3), Page(PoliciesFrom(51, 51), 0)>>,
      <<Page(PoliciesFrom(1, 1), -1)>>,
      <<Page(PoliciesFrom(1, 1), 2), FailedPage>>,
      <<Page(<< >>, 0)>> }

\* and one page of thirteen policies; two or three policies on one page
PolicySources ==
    PagedPolicySources
    \cup { <<Page(ThirteenPolicies, 0)>> }
    \cup { <<Page(<<p, q>>, 0)>> : p \in SomePolicies, q \in SomePolicies }
    \cup { <<Page(<<p, q, r>>, 0)>> : p \in SomePolicies, q \in SomePolicies,
                                      r \in SomePolicies }

DocsFrom(first, last) == [k \in 1..(last - first + 1) |-> ProviderData(first + k - 1)]

DocSources ==
    { <<Page(DocsFrom(1, 50), 2), Page(DocsFrom(51, 100), 3), Page(DocsFrom(101, 110), 0)>>,
      <<Page(DocsFrom(1, 1), 2), Page(DocsFrom(2, 2), 1)>>,
      <<Page(DocsFrom(1, 1), 2), Page(<< >>, 3), Page(DocsFrom(3, 3), 0)>>,
      <<Page(DocsFrom(1, 1), -1)>>,
      <<Page(DocsFrom(1, 1), 2), FailedPage>>,
      <<Page(<< >>, 0)>> }

DocOptions(page) ==
    [ProviderVersionID |-> <<"1">>, Category |-> << >>, Language |-> << >>, Page |-> page]

\* modules of which a query for "a" finds several of the same relevance
SomeModules ==
    { Module(1, <<"a">>, << >>, <<"c">>, <<"c">>, FALSE, 0, 90),
      Module(2, <<"b", "a">>, <<"A">>, <<"c">>, <<"c">>, FALSE, 0, 30),
      Module(3, <<"c">>, <<"b", " ", "a">>, <<"a">>, <<"c">>, FALSE, 10, 90),
      Module(4, <<"c">>, << >>, <<"c">>, <<"a">>, TRUE, 10000000, 0),
      Module(5, <<"c">>, << >>, <<"c">>, <<"c">>, FALSE, 10000000, 90),
      Module(6, <<"c">>, << >>, <<"c">>, <<"c">>, FALSE, 0, 90),
      Module(7, <<"c">>, << >>, <<"C">>, <<"c">>, FALSE, 0, 90) }

\* thirteen modules in the order of relevance of ThirteenPolicies
ThirteenModules ==
    [k \in 1..13 |->
        Module(k, ThirteenPolicies[k].Attributes.Name, << >>, <<"c">>, <<"c">>,
               ThirteenPolicies[k].Attributes.Verified,
               CASE ThirteenPolicies[k].Attributes.Downloads > 10000 -> 10000000
                 [] ThirteenPolicies[k].Attributes.Downloads > 1000 -> 100
                 [] ThirteenPolicies[k].Attributes.Downloads > 100 -> 10
                 [] OTHER -> 0,
               90)]

ModuleSources ==
    { <<FailedPage>>, <<Page(<< >>, 0)>>, <<Page(ThirteenModules, 0)>> }
    \cup { <<Page(<<p, q>>, 0)>> : p \in SomeModules, q \in SomeModules }
    \cup { <<Page(<<p, q, r>>, 0)>> : p \in SomeModules, q \in SomeModules,
                                      r \in SomeModules }

SearchQueries == { << >>, <<"a">>, <<"A", " ", "b">>, <<" ">> }

\* a query of white space finds every policy with one relevance: the long
\* lists are searched with the other queries
SearchInputs ==
    { [op |-> "PoliciesService.Search", query |-> query, source |-> source] :
          query \in SearchQueries, source \in PolicySources }
    \cup { [op |-> "PoliciesService.Search", query |-> query, source |-> source] :
               query \in SearchQueries \ {<<" ">>}, source \in LongPolicySources }
    \cup { [op |-> "ProvidersService.ListDocsV2", opts |-> DocOptions(page),
            source |-> source] : page \in {-1, 0, 2}, source \in DocSources }
    \cup { [op |-> "ModulesService.SearchWithRelevance", query |-> query,
            offset |-> offset, source |-> source] :
               query \in SearchQueries, offset \in {-1, 0}, source \in ModuleSources }

SearchInit ==
    /\ ClientInit
    /\ fn = ""
    /\ arg \in SearchInputs
    /\ ret = << >>
    /\ errs = << >>

SearchNext ==
    \/ PoliciesSearchCall
    \/ PoliciesSearchFetch
    \/ PoliciesSearchRank
    \/ ListDocsV2Call
    \/ ListDocsV2Fetch
    \/ SearchWithRelevance

SearchSpec == SearchInit /\ [][SearchNext]_vars

\* the traversals alone, of the sources of several pages.  A call that has
\* started runs on: nothing of it waits for another caller.
TraverseInputs ==
    { in \in SearchInputs :
          \/ in.op = "PoliciesService.Search"
                 /\ in.source \in LongPolicySources \cup PagedPolicySources
          \/ in.op = "ProvidersService.ListDocsV2" }

TraverseInit ==
    /\ ClientInit
    /\ fn = ""
    /\ arg \in TraverseInputs
    /\ ret = << >>
    /\ errs = << >>

TraverseNext ==
    \/ PoliciesSearchCall
    \/ PoliciesSearchFetch
    \/ PoliciesSearchRank
    \/ ListDocsV2Call
    \/ ListDocsV2Fetch

TraverseSpec == TraverseInit /\ [][TraverseNext]_vars /\ WF_vars(TraverseNext)

(***************************************************************************)
(* The base URL of the client and its lock c.mu, with concurrent callers   *)
(* of SetBaseURL, GetBaseURL and ModulesService.Download.  A Go string is  *)
(* two words, the data pointer and the length; an access that c.mu does    *)
(* not order reads or writes them one at a time.  The state is in ret.     *)
(***************************************************************************)
Words == {"ptr", "len"}
String(ptr, len) == [ptr |-> ptr, len |-> len]
\* the base URLs a caller sets; url.Parse refuses the last
BaseURLs == { String("u", 1), String("v", 2), String("%", 3) }
urlParse(baseURL) == IF baseURL.ptr = "%" THEN <<Err("url.Error")>> ELSE Nil

RaceInit ==
    /\ ClientInit
    /\ fn = ""
    /\ arg \in {u \in BaseURLs : urlParse(u) = Nil}
    /\ ret = [baseURL |-> arg,
              mu |-> [writer |-> "", readers |-> {}],
              at |-> [p \in Callers |-> "idle"],
              local |-> [p \in Callers |-> arg],
              words |-> [p \in Callers |-> {}],
              value |-> [p \in Callers |-> arg],
              err |-> [p \in Callers |-> Nil],
              done |-> [p \in Callers |-> ""],
              assigned |-> {arg}]
    /\ errs = << >>

\* c.mu.Lock() and c.mu.RLock()
Lock(mu, p) == [mu EXCEPT !.writer = p]
CanLock(mu) == mu.writer = "" /\ mu.readers = {}
RLock(mu, p) == [mu EXCEPT !.readers = @ \cup {p}]
CanRLock(mu) == mu.writer = ""
Unlock(mu) == [mu EXCEPT !.writer = ""]
RUnlock(mu, p) == [mu EXCEPT !.readers = @ \ {p}]

\* a caller calls SetBaseURL(baseURL), GetBaseURL() or Download(...)
CallClient(p) ==
    /\ ret.at[p] = "idle"
    /\ \E op \in {"SetBaseURL", "GetBaseURL", "Download"} :
           \E baseURL \in IF op = "SetBaseURL" THEN BaseURLs ELSE {arg} :
               /\ fn' = op
               /\ ret' = [ret EXCEPT !.at[p] = op, !.local[p] = baseURL, !.words[p] = {}]
    /\ UNCHANGED <<arg, errs, client>>

\* SetBaseURL: c.mu.Lock()
SetBaseURLLock(p) ==
    /\ ret.at[p] = "SetBaseURL"
    /\ CanLock(ret.mu)
    /\ ret' = [ret EXCEPT !.at[p] = "SetBaseURL locked", !.mu = Lock(ret.mu, p)]
    /\ UNCHANGED <<fn, arg, errs, client>>

\* SetBaseURL: url.Parse fails, return with the deferred Unlock
SetBaseURLInvalid(p) ==
    /\ ret.at[p] = "SetBaseURL locked"
    /\ urlParse(ret.local[p]) # Nil
    /\ ret' = [ret EXCEPT !.at[p] = "idle", !.local[p] = arg, !.words[p] = {},
                          !.mu = Unlock(ret.mu), !.done[p] = "SetBaseURL",
                          !.err[p] = <<Err("invalid base URL")>> \o urlParse(ret.local[p])]
    /\ UNCHANGED <<fn, arg, errs, client>>

\* SetBaseURL: c.baseURL = baseURL, one word of it
SetBaseURLWrite(p) ==
    /\ ret.at[p] = "SetBaseURL locked"
    /\ urlParse(ret.local[p]) = Nil
    /\ \E w \in Words \ ret.words[p] :
           ret' = [ret EXCEPT !.baseURL[w] = ret.local[p][w],
                              !.words[p] = @ \cup {w},
                              !.assigned = @ \cup {ret.local[p]}]
    /\ UNCHANGED <<fn, arg, errs, client>>

\* SetBaseURL: return nil with the deferred Unlock
SetBaseURLUnlock(p) ==
    /\ ret.at[p] = "SetBaseURL locked"
    /\ ret.words[p] = Words
    /\ ret' = [ret EXCEPT !.at[p] = "idle", !.local[p] = arg, !.words[p] = {},
                          !.mu = Unlock(ret.mu), !.done[p] = "SetBaseURL",
                          !.err[p] = Nil]
    /\ UNCHANGED <<fn, arg, errs, client>>

\* GetBaseURL: c.mu.RLock(); newRequest of Download's s.Get does the same
BaseURLRLock(p) ==
    /\ ret.at[p] \in {"GetBaseURL", "Download"}
    /\ CanRLock(ret.mu)
    /\ ret' = [ret EXCEPT !.at[p] = IF @ = "GetBaseURL" THEN "GetBaseURL locked"
                                     ELSE "Download locked",
                          !.mu = RLock(ret.mu, p)]
    /\ UNCHANGED <<fn, arg, errs, client>>

\* GetBaseURL: return c.baseURL with the deferred RUnlock
GetBaseURLReturn(p) ==
    /\ ret.at[p] = "GetBaseURL locked"
    /\ ret' = [ret EXCEPT !.at[p] = "idle", !.local[p] = arg, !.words[p] = {},
                          !.mu = RUnlock(ret.mu, p),
                          !.done[p] = "GetBaseURL", !.value[p] = ret.baseURL, !.err[p] = Nil]
    /\ UNCHANGED <<fn, arg, errs, client>>

\* Download: s.Get has built its request from c.baseURL in newRequest, which
\* returns with the deferred RUnlock; the request fails or succeeds
DownloadGet(p) ==
    /\ ret.at[p] = "Download locked"
    /\ \E err \in {Nil, APIError(404)} :
           ret' = [ret EXCEPT !.at[p] = IF err = Nil THEN "Download verified" ELSE "idle",
                              !.mu = RUnlock(ret.mu, p),
                              !.done[p] = IF err = Nil THEN @ ELSE "Download",
                              !.err[p] = IF err = Nil THEN Nil
                                         ELSE <<Err("failed to verify module exists")>> \o err]
    /\ UNCHANGED <<fn, arg, errs, client>>

\* Download: s.client.baseURL as an argument of fmt.Sprintf, one word of it
DownloadRead(p) ==
    /\ ret.at[p] = "Download verified"
    /\ \E w \in Words \ ret.words[p] :
           ret' = [ret EXCEPT !.local[p][w] = ret.baseURL[w], !.words[p] = @ \cup {w}]
    /\ UNCHANGED <<fn, arg, errs, client>>

\* Download: return downloadURL, nil
DownloadReturn(p) ==
    /\ ret.at[p] = "Download verified"
    /\ ret.words[p] = Words
    /\ ret' = [ret EXCEPT !.at[p] = "idle", !.local[p] = arg, !.words[p] = {},
                          !.done[p] = "Download", !.value[p] = ret.local[p], !.err[p] = Nil]
    /\ UNCHANGED <<fn, arg, errs, client>>

RaceNext ==
    \E p \in Callers :
        \/ CallClient(p)
        \/ SetBaseURLLock(p)
        \/ SetBaseURLInvalid(p)
        \/ SetBaseURLWrite(p)
        \/ SetBaseURLUnlock(p)
        \/ BaseURLRLock(p)
        \/ GetBaseURLReturn(p)
        \/ DownloadGet(p)
        \/ DownloadRead(p)
        \/ DownloadReturn(p)

RaceSpec == RaceInit /\ [][RaceNext]_vars

(***************************************************************************)
(* One caller that issues requests, one after the other.                   *)
(***************************************************************************)
\* the steps of Client.do's retry loop the caller takes by itself; the
\* attempt ends because the HTTP client has a timeout (client.go:246)
DoStep(p) ==
    \/ StartAttempt(p)
    \/ FinishAttempt(p)
    \/ BackoffCtxDone(p)
    \/ BackoffTimerFired(p)

RequestNext ==
    \/ Tick
    \/ StartRequest(Solo)
    \/ Cancel(Solo)
    \/ WaitTryAcquire(Solo)
    \/ WaitTimeUntilNextToken(Solo)
    \/ WaitCtxDone(Solo)
    \/ WaitTimerFired(Solo)
    \/ StartAttempt(Solo)
    \/ FinishAttempt(Solo)
    \/ BackoffCtxDone(Solo)
    \/ BackoffTimerFired(Solo)

\* Time passes and the scheduler runs the caller when it can run; nothing
\* forces it to issue a request or to cancel.
RequestSpec ==
    /\ Init /\ [][RequestNext]_vars
    /\ WF_vars(Tick)
    /\ WF_vars(WaitStep(Solo))
    /\ WF_vars(DoStep(Solo))

(***************************************************************************)
(* Claims.                                                                 *)
(***************************************************************************)
\* C1: in every reachable state of the limiter, under every interleaving of
\* TryAcquire, Wait, Reset and TokensRemaining and every passage of time,
\* 0 <= tokens <= maxTokens.
C1_TokensInRange == 0 <= tokens /\ tokens <= maxTokens

\* The bucket has been emptied by acquisitions and a further TryAcquire was
\* refused.
C1_Witness == tokens = 0 /\ windowAcquired = maxTokens /\ windowCalls > maxTokens

\* C2: between two refill boundaries (a refill that assigns tokens, or
\* Reset), which lie less than refillPeriod apart whenever tokens are taken,
\* at most maxTokens acquisitions succeed.
C2_AtMostMaxPerWindow == windowAcquired <= maxTokens

\* A window in which maxTokens acquisitions succeeded after a partial
\* refill had started it.
C2_Witness == windowAcquired = maxTokens /\ elapsed > 0 /\ elapsed < refillPeriod

\* C9: TryAcquire takes one token iff one is there after the lazy refill:
\* of the k calls made since the refill that left t tokens, exactly
\* min(k, t) returned true, each of them lowered tokens by exactly 1, the
\* others left tokens at 0, and the last call returned true iff k <= t.
C9_TryAcquireConsumesIffAvailable ==
    /\ windowAcquired = min(windowCalls, windowTokens)
    /\ tokens = windowTokens - windowAcquired
    /\ windowCalls > 0 => (tryRet <=> windowCalls <= windowTokens)
    /\ windowCalls > windowTokens => tokens = 0

\* More calls than tokens since the last refill of a bucket that held one
\* token: one call got it, the others were refused.
C9_Witness ==
    /\ windowTokens = 1
    /\ windowCalls = 3
    /\ windowAcquired = 1
    /\ ~tryRet


\* A request that has returned.
Returned(p) == pc[p] = "idle" /\ result[p] # Pending

\* C3: every HTTP attempt of a request, the first one and each retry, is
\* preceded by its own successful Wait: a request never has started more
\* attempts than it has taken tokens, and when it returns after an attempt
\* it has taken exactly as many tokens as it made attempts.
C3_EveryAttemptTakesAToken ==
    \A p \in Requesters :
        /\ attempt[p] <= consumed[p]
        /\ Returned(p) /\ attempt[p] > 0 => consumed[p] = attempt[p]

\* C4: against a remote that answers every attempt with 500, a request that
\* is not cancelled makes exactly MaxRetries + 1 attempts and fails with an
\* error for which IsServerError holds.
C4_Always500EndsInServerError ==
    \A p \in Requesters :
        Returned(p) /\ attempt[p] > 0 /\ only500[p] /\ ~cancelled[p] =>
            /\ attempt[p] = MaxRetries + 1
            /\ result[p] # Nil
            /\ IsServerError(result[p])

\* The part of C4 about the number of attempts.
C4_Always500AttemptCount ==
    \A p \in Requesters :
        /\ attempt[p] <= MaxRetries + 1
        /\ Returned(p) /\ attempt[p] > 0 /\ only500[p] /\ ~cancelled[p] =>
               attempt[p] = MaxRetries + 1 /\ result[p] # Nil

\* the outcomes the claim C5 calls retryable
RetryableOutcome(resp) ==
    \/ resp.kind \in {"neterr", "ctxerr"}
    \/ resp.kind = "resp" /\ (resp.status = 429 \/ resp.status >= 500)

\* an attempt of p ends in this step
AttemptEnds(p) == pc[p] \in {"InFlight", "Aborted"} /\ pc'[p] \notin {"InFlight", "Aborted"}

\* C5: the retry policy asks for a retry of an attempt iff it ended in a
\* network-level error, in status 429 or in a status >= 500: after such an
\* attempt the retry loop backs off for the next attempt as long as retries
\* are left (C4), and after any other response (2xx, 4xx other than 429) the
\* call returns at once, with no further attempt.
C5_RetriedIffRetryable ==
    [][\A p \in Requesters :
          /\ AttemptEnds(p) =>
                /\ CheckRetry(cancelled[p], lastResp'[p]).retry <=> RetryableOutcome(lastResp'[p])
                /\ pc'[p] = "Backoff" <=>
                       (RetryableOutcome(lastResp'[p]) /\ attempt[p] <= MaxRetries)
                /\ pc'[p] # "Backoff" => Returned(p)'
          /\ attempt'[p] > attempt[p] /\ attempt[p] > 0 => RetryableOutcome(lastResp[p])
      ]_vars

\* A request was retried after a 429 and returned at once on a 404.
C5_Witness ==
    \E p \in Requesters :
        /\ Returned(p)
        /\ attempt[p] = 2
        /\ lastResp[p].status = 404
        /\ result[p] = APIError(404)


\* C6 as claimed: once the caller's cancellation signal has fired, the call
\* starts no further HTTP attempt and Wait takes no token.
C6_NoAttemptAfterCancel ==
    [][\A p \in Callers :
          cancelled[p] /\ pc[p] # "idle" =>
              /\ attempt'[p] = attempt[p]
              /\ consumed'[p] = consumed[p]
      ]_vars

\* C6 as the code has it: once the signal has fired a request starts at most
\* one further attempt (Wait takes a token that is available before it looks
\* at the signal, and a backoff whose timer has fired goes on); that attempt
\* is failed by the transport with the cancellation error before anything is
\* sent; and an attempt that failed because of the cancellation is never
\* followed by another one, the backoff after it being ended by the signal.
C6_AtMostOneAbortedAttemptAfterCancel ==
    [][\A p \in Requesters :
          /\ cancelled[p] /\ pc[p] # "idle" /\ attempt'[p] > attempt[p] =>
                 /\ pc'[p] = "Aborted"
                 /\ lastResp[p] # CtxErr
          /\ pc[p] = "Aborted" /\ pc'[p] # "Aborted" =>
                 /\ lastResp'[p] = CtxErr
                 /\ pc'[p] = "idle" \/ (pc'[p] = "Backoff" /\ woke'[p] = "ctx")
          /\ lastResp[p] = CtxErr /\ pc[p] # "idle" =>
                 /\ attempt'[p] = attempt[p]
                 /\ pc'[p] \in {"idle", "Backoff"}
                 /\ pc'[p] = "idle" => result'[p] # Nil /\ errorsIs(result'[p], ContextCanceled)
      ]_vars

\* A request cancelled while it waited for a token, whose Wait then found a
\* token: its one attempt was aborted and the call returned the
\* cancellation error.
C6_Witness ==
    \E p \in Requesters :
        /\ Returned(p)
        /\ cancelled[p]
        /\ consumed[p] = 1
        /\ attempt[p] = 1
        /\ lastResp[p] = CtxErr
        /\ errorsIs(result[p], ContextCanceled)

\* Wait returned ctx.Err() to the caller's last call.
WaitCancelled(p) ==
    /\ pc[p] = "idle"
    /\ result[p] \in {<<ContextCanceled>>, <<Err("rate limit error"), ContextCanceled>>}

\* C7: if Wait returns cancelled, the call fails at once with an error that
\* wraps the cancellation cause, it has made no HTTP attempt, and it has not
\* decremented the token count.
C7_CancelledWaitTakesNothing ==
    /\ \A p \in Callers :
          WaitCancelled(p) =>
              /\ errorsIs(result[p], ContextCanceled)
              /\ attempt[p] = 0
              /\ consumed[p] = 0
              /\ cancelled[p]
    /\ \A p \in Callers : pc[p] \in {"WaitTime", "WaitSelect"} => consumed[p] = 0

\* A request whose Wait was cancelled while the bucket was empty.
C7_Witness ==
    \E p \in Requesters :
        /\ WaitCancelled(p)
        /\ tokens = 0
        /\ windowCalls > windowAcquired

\* the exponential backoff after attempt number i (from 0)
ExponentialBackoff(i) == min(Pow2(i) * RetryWaitMin, RetryWaitMax)

\* a 429 carrying a parsable x-ratelimit-reset
HasResetHint(resp) ==
    resp.kind = "resp" /\ resp.status = 429 /\ resp.reset.set /\ resp.reset.ok

\* a 429 or 503 carrying a parsable Retry-After
HasRetryAfter(resp) ==
    /\ resp.kind = "resp" /\ resp.status \in {429, 503}
    /\ resp.retryAfter.set /\ resp.retryAfter.ok

\* the retry loop backs off in this step
BacksOff(p) == pc[p] \in {"InFlight", "Aborted"} /\ pc'[p] = "Backoff"

\* C10 as claimed: after a 429 with a parsable reset hint the wait before
\* the next attempt is the time left until the hinted instant; without such
\* a hint it is the exponential backoff, within [RetryWaitMin, RetryWaitMax].
C10_HintOrExponential ==
    [][\A p \in Requesters :
          BacksOff(p) =>
              LET resp == lastResp'[p]
              IN  IF HasResetHint(resp)
                  THEN /\ wait'[p] = resp.reset.val
                       /\ timer'[p] = IF resp.reset.val > 0 THEN resp.reset.val ELSE 0
                  ELSE /\ wait'[p] = ExponentialBackoff(attempt[p] - 1)
                       /\ timer'[p] = wait'[p]
                       /\ RetryWaitMin <= wait'[p] /\ wait'[p] <= RetryWaitMax
      ]_vars

\* C10 as the code has it: without a reset hint, a 429 or 503 carrying a
\* parsable Retry-After header is waited on for that many seconds, and only
\* the remaining cases get the exponential backoff.
C10_HintOrRetryAfterOrExponential ==
    [][\A p \in Requesters :
          BacksOff(p) =>
              LET resp == lastResp'[p]
              IN  /\ timer'[p] = IF wait'[p] > 0 THEN wait'[p] ELSE 0
                  /\ IF HasResetHint(resp) THEN wait'[p] = resp.reset.val
                     ELSE IF HasRetryAfter(resp) THEN wait'[p] = resp.retryAfter.val
                     ELSE /\ wait'[p] = ExponentialBackoff(attempt[p] - 1)
                          /\ RetryWaitMin <= wait'[p] /\ wait'[p] <= RetryWaitMax
      ]_vars

\* A request backs off after a second attempt answered 429 with a reset
\* hint further away than RetryWaitMax.
C10_Witness ==
    \E p \in Requesters :
        /\ pc[p] = "Backoff"
        /\ attempt[p] = 2
        /\ HasResetHint(lastResp[p])
        /\ wait[p] = lastResp[p].reset.val
        /\ wait[p] > RetryWaitMax


\* C8 as claimed: every caller that Wait makes wait and whose cancellation
\* never fires eventually acquires a token, whatever the other callers do.
C8_EveryWaiterEventuallyAcquires ==
    \A p \in Callers : (pc[p] = "WaitTime") ~> (consumed[p] > 0 \/ cancelled[p])

\* C8 as the code has it: Wait has no queue, so the callers as a whole make
\* progress but no single one is promised a token: after a caller has been
\* refused in Wait, eventually some TryAcquire (its own or another caller's)
\* returns true or the caller's cancellation fires.
C8_SomeCallerEventuallyAcquires ==
    \A p \in Callers : (pc[p] = "WaitTime" /\ ~tryRet) ~> (tryRet \/ cancelled[p])

\* A caller has been refused in Wait and sleeps until the next token is due.
C8_Witness ==
    \E p \in Callers :
        /\ pc[p] = "WaitSelect"
        /\ timer[p] > 0
        /\ ~cancelled[p]
        /\ ~tryRet
        /\ tokens = 0

\* a non-empty run of digits; a non-empty tag over [A-Za-z0-9.-]
IsDigitRun(s) == s # << >> /\ \A i \in 1..Len(s) : s[i] \in Digits
IsTag(s) == s # << >> /\ \A i \in 1..Len(s) : s[i] \in TagChars

\* nothing, -prerelease, +build, or -prerelease+build
IsVersionSuffix(t) ==
    \/ t = << >>
    \/ t[1] \in {"-", "+"} /\ IsTag(Tail(t))
    \/ \E m \in 2..Len(t) :
          t[1] = "-" /\ t[m] = "+" /\ IsTag(SubSeq(t, 2, m - 1)) /\ IsTag(From(t, m))

\* major.minor.patch with an optional -prerelease and an optional +build
IsSemver(s) ==
    \E i, j, k \in 1..Len(s) :
        /\ i < j /\ j < k
        /\ s[i] = "." /\ s[j] = "."
        /\ IsDigitRun(SubSeq(s, 1, i - 1))
        /\ IsDigitRun(SubSeq(s, i + 1, j - 1))
        /\ IsDigitRun(SubSeq(s, j + 1, k))
        /\ IsVersionSuffix(From(s, k))

\* C15: ValidateProviderVersion(s) succeeds iff s is the empty string, the
\* literal "latest", or an optional leading v followed by major.minor.patch
\* (three runs of digits) with an optional non-empty -prerelease and an
\* optional non-empty +build over [A-Za-z0-9.-]; in particular it accepts
\* "", "latest", "1.0.0", "v1.0.0", "1.0.0-alpha", "1.0.0-beta.1" and
\* rejects "1", "1.0", "1.0.0.0", "abc", "1.a.0", "1.0.0-".
C15_ValidateVersionGrammar ==
    /\ fn = "ValidateProviderVersion" =>
           (ret = Nil <=>
               \/ arg = << >>
               \/ arg = Latest
               \/ IsSemver(arg)
               \/ HasPrefix(arg, <<"v">>) /\ IsSemver(Tail(arg)))
    /\ \A s \in AcceptedExamples : ValidateProviderVersion(s) = Nil
    /\ \A s \in RejectedExamples : ValidateProviderVersion(s) # Nil

\* "v1.0.0+a1" was validated and accepted.
C15_Witness ==
    /\ fn = "ValidateProviderVersion"
    /\ arg = <<"v">> \o Str1_0_0 \o <<"+", "a", "1">>
    /\ ret = Nil

\* -1, 0 or 1 as a is below, equal to or above b
Sign(a, b) == IF a < b THEN -1 ELSE IF a > b THEN 1 ELSE 0

\* the order the specification gives to two versions from their parts
VersionOrder(a, b) ==
    IF a.major # b.major THEN Sign(a.major, b.major)
    ELSE IF a.minor # b.minor THEN Sign(a.minor, b.minor)
    ELSE IF a.patch # b.patch THEN Sign(a.patch, b.patch)
    ELSE IF a.pre = << >> /\ b.pre # << >> THEN 1
    ELSE IF a.pre # << >> /\ b.pre = << >> THEN -1
    ELSE IF a.pre = b.pre THEN 0
    ELSE IF StringLess(a.pre, b.pre) THEN -1
    ELSE 1

IsGreatestOf(version, list) ==
    /\ \E i \in 1..Len(list) : list[i] = version
    /\ \A i \in 1..Len(list) : CompareVersions(version, list[i]) >= 0

\* C17: the latest-version selection of Modules.GetLatest and
\* Providers.GetLatest, over a non-empty list of version strings, returns an
\* element v of the list with CompareVersions(v, x) >= 0 for every x of the
\* list; over an empty list it returns an error and no version.  (The list
\* is the one the fold runs over: the versions ListVersions returned for a
\* module, the included entries for a provider.)
C17_LatestIsGreatest ==
    LET list == IF fn = "ModulesService.GetLatest" THEN NonEmpty(arg) ELSE arg
    IN  fn \in {"ModulesService.GetLatest", "ProvidersService.GetLatest"} =>
            IF list = << >>
            THEN ret.err # Nil /\ ret.version = << >>
            ELSE ret.err = Nil /\ IsGreatestOf(ret.version, list)

\* The part of C17 that holds: a version that is returned is an element of
\* the list, and the module selection returns the greatest one.
C17_ChosenIsListed ==
    /\ fn = "ModulesService.GetLatest" =>
           IF NonEmpty(arg) = << >>
           THEN ret.err # Nil /\ ret.version = << >>
           ELSE ret.err = Nil /\ IsGreatestOf(ret.version, NonEmpty(arg))
    /\ fn = "ProvidersService.GetLatest" /\ ret.err = Nil =>
           \E i \in 1..Len(arg) : arg[i] = ret.version

\* C14: for an APIError with HTTP status s exactly the matching predicate
\* holds: IsNotFound iff s = 404, IsUnauthorized iff s = 401, IsForbidden
\* iff s = 403, IsRateLimited iff s = 429, IsServerError iff s is a 5xx
\* status; no APIError satisfies IsValidationError.
C14_PredicateMatchesStatus ==
    fn = "APIError" =>
        /\ IsNotFound(ret) <=> arg = 404
        /\ IsUnauthorized(ret) <=> arg = 401
        /\ IsForbidden(ret) <=> arg = 403
        /\ IsRateLimited(ret) <=> arg = 429
        /\ IsServerError(ret) <=> arg \in ServerErrorStatuses
        /\ ~IsValidationError(ret)

\* The part of C14 that holds: everything but the 5xx statuses other than
\* 500, 502 and 503, and no predicate holds for those.
C14_PredicateMatchesKnownStatus ==
    fn = "APIError" =>
        /\ IsNotFound(ret) <=> arg = 404
        /\ IsUnauthorized(ret) <=> arg = 401
        /\ IsForbidden(ret) <=> arg = 403
        /\ IsRateLimited(ret) <=> arg = 429
        /\ IsServerError(ret) <=> arg \in {500, 502, 503}
        /\ ~IsValidationError(ret)

\* C13: MultiError.Add ignores nil and appends every other error in call
\* order; ErrorOrNil returns nil when nothing was added, the single inner
\* error itself when exactly one was added, and the MultiError (with all the
\* errors, in order) when two or more were added.
C13_AddAndErrorOrNil ==
    [][ /\ fn' = "MultiError.Add" /\ arg' = Nil => errs' = errs
        /\ fn' = "MultiError.Add" /\ arg' # Nil =>
               /\ Len(errs') = Len(errs) + 1
               /\ SubSeq(errs', 1, Len(errs)) = errs
               /\ errs'[Len(errs')] = arg'
        /\ fn' = "MultiError.ErrorOrNil" =>
               /\ errs' = errs
               /\ Len(errs) = 0 => ret' = Nil
               /\ Len(errs) = 1 => ret' = errs[1]
               /\ Len(errs) >= 2 =>
                      /\ Len(ret') = 1
                      /\ ret'[1].type = "MultiError"
                      /\ ret'[1].Errors = errs
      ]_vars

\* two errors with a nil between them were added, and the MultiError returned
C13_Witness ==
    /\ fn = "MultiError.ErrorOrNil"
    /\ errs = <<ValidationError("namespace"), APIError(404)>>
    /\ ret = MultiError(errs)

\* one error was added and ErrorOrNil returned that error
C13_WitnessSingle ==
    /\ fn = "MultiError.ErrorOrNil"
    /\ errs = <<ValidationError("name")>>
    /\ ret = ValidationError("name")

ValidateFunctions == {"validateModuleParams", "validateProviderParams", "validatePolicyParams"}

\* C12: every error returned because parameter validation failed satisfies
\* IsValidationError, whether one field or several fields of the input are
\* invalid at once.
C12_ValidationFailureIsValidationError ==
    fn \in ValidateFunctions /\ ret # Nil => IsValidationError(ret)

\* The part of C12 that holds: with exactly one invalid field the error
\* satisfies IsValidationError, and no error is returned with none.
C12_SingleFieldIsValidationError ==
    fn \in ValidateFunctions =>
        /\ Len(errs) = 0 <=> ret = Nil
        /\ Len(errs) = 1 => IsValidationError(ret)
        /\ Len(errs) >= 2 => ~IsValidationError(ret)


\* the grammars of the identifier fields, stated on the characters:
\* [A-Za-z0-9][A-Za-z0-9_-]* and [a-z][a-z0-9-]*
IsName(s) ==
    /\ Len(s) >= 1
    /\ s[1] \in LowerAlpha \cup UpperAlpha \cup Digits
    /\ \A i \in 2..Len(s) : s[i] \in LowerAlpha \cup UpperAlpha \cup Digits \cup {"-", "_"}
IsProviderName(s) ==
    /\ Len(s) >= 1
    /\ s[1] \in LowerAlpha
    /\ \A i \in 2..Len(s) : s[i] \in LowerAlpha \cup Digits \cup {"-"}

\* the four segments are a valid module identifier
IsModuleID(segs) ==
    /\ Len(segs) = 4
    /\ \A i \in 1..4 : segs[i] # << >>
    /\ IsName(segs[1])
    /\ IsName(segs[2])
    /\ IsProviderName(segs[3])
    /\ ValidateProviderVersion(segs[4]) = Nil

\* the segments without their surrounding white space
RECURSIVE Trimmed(_)
Trimmed(segs) ==
    IF segs = << >> THEN << >> ELSE <<TrimSpace(Head(segs))>> \o Trimmed(Tail(segs))

\* the error of ParseModuleID states a cause that holds of the segments
ModuleIDCause(err, segs) ==
    \/ /\ err \in {Errorf("module ID cannot be empty"), Errorf("invalid module ID format")}
       /\ Len(segs) # 4
    \/ /\ err = Errorf("module ID components cannot be empty")
       /\ Len(segs) = 4 /\ \E i \in 1..4 : segs[i] = << >>
    \/ /\ err = Errorf("invalid namespace format")
       /\ Len(segs) = 4 /\ ~IsName(segs[1])
    \/ /\ err = Errorf("invalid module name format")
       /\ Len(segs) = 4 /\ ~IsName(segs[2])
    \/ /\ err = Errorf("invalid provider format")
       /\ Len(segs) = 4 /\ ~IsProviderName(segs[3])
    \/ /\ err = Errorf("invalid semantic version format")
       /\ Len(segs) = 4 /\ ValidateProviderVersion(segs[4]) # Nil

\* ParseModuleID, called on an input with these segments, returned what
\* the claim says
ModuleIDParsedAs(segs) ==
    /\ ret.err = Nil <=> IsModuleID(segs)
    /\ ret.err = Nil =>
           /\ <<ret.namespace, ret.name, ret.provider, ret.version>> = segs
           /\ \A i \in 1..4 : segs[i] # << >>
    /\ ret.err # Nil => ModuleIDCause(ret.err, segs)

\* C18 as stated: ParseModuleID succeeds iff the input splits on '/' into
\* exactly four non-empty segments that match the grammars of namespace,
\* name, provider and version; on success it returns exactly those four
\* segments, none empty; otherwise an error that states the cause.
C18_ParseModuleIDOnSegments ==
    fn = "ParseModuleID" => ModuleIDParsedAs(Split(arg, "/"))

\* C18, amended: the same with each segment taken without its surrounding
\* white space: ParseModuleID succeeds iff the input splits on '/' into
\* exactly four segments that, once trimmed, are non-empty and match the
\* grammars; it returns the trimmed segments, or an error whose cause holds
\* of the trimmed segments.
C18_ParseModuleIDOnTrimmedSegments ==
    fn = "ParseModuleID" => ModuleIDParsedAs(Trimmed(Split(arg, "/")))

\* " a/a /a/1.0.0 " was parsed, without error, as (a, a, a, 1.0.0)
C18_Witness ==
    /\ fn = "ParseModuleID"
    /\ arg = <<" ", "a", "/", "a", " ", "/", "a", "/", "1", ".", "0", ".", "0", " ">>
    /\ ret = ModuleID(<<"a">>, <<"a">>, <<"a">>, Str1_0_0, Nil)

\* "a@/a/a/1.0.0" was rejected because of its namespace
C18_WitnessRejected ==
    /\ fn = "ParseModuleID"
    /\ arg = <<"a", "@", "/", "a", "/", "a", "/", "1", ".", "0", ".", "0">>
    /\ ret.err = Errorf("invalid namespace format")

Parsers == {"ParseModuleID", "ParsePolicyID", "ExtractProviderInfo"}

\* the fields a parser returned
ReturnedFields ==
    IF fn = "ParseModuleID" THEN <<ret.namespace, ret.name, ret.provider, ret.version>>
    ELSE <<ret.namespace, ret.name, ret.version>>

\* every field a parser returned is valid for its place
ReturnedFieldsValid ==
    CASE fn = "ParseModuleID" -> IsModuleID(ReturnedFields)
      [] fn = "ParsePolicyID" ->
            /\ IsName(ret.namespace)
            /\ IsName(ret.name)
            /\ ret.version # << >> /\ ValidateProviderVersion(ret.version) = Nil
      [] fn = "ExtractProviderInfo" ->
            /\ IsName(ret.namespace)
            /\ IsProviderName(ret.name)
            /\ ValidateProviderVersion(ret.version) = Nil

\* C19: no parser (ParseModuleID, ParsePolicyID, ParseProviderURI) returns a
\* partially valid identifier: a call returns either all fields valid and no
\* error, or an error and every returned field empty.
C19_AllFieldsOrNone ==
    fn \in Parsers =>
        IF ret.err = Nil THEN ReturnedFieldsValid
        ELSE \A i \in 1..Len(ReturnedFields) : ReturnedFields[i] = << >>

\* The part of C19 that holds: without an error every field is valid, and
\* an error is returned whenever the fields are not all valid.
C19_NoErrorMeansValid ==
    fn \in Parsers /\ ret.err = Nil => ReturnedFieldsValid


\* the three segments are a valid policy identifier
IsPolicyID(segs) ==
    /\ Len(segs) = 3
    /\ \A i \in 1..3 : segs[i] # << >>
    /\ IsName(segs[1])
    /\ IsName(segs[2])
    /\ ValidateProviderVersion(segs[3]) = Nil

\* ParsePolicyID accepted the input arg as these three segments, and
\* accepts it with the same result behind the prefix "policies/"
PolicyIDAccepted(segs) ==
    /\ ret = PolicyID(segs[1], segs[2], segs[3], Nil)
    /\ ParsePolicyID(PoliciesPrefix \o arg) = ret

\* ParsePolicyID rejects an input whose remainder, after an optional
\* "policies/", does not have exactly three non-empty segments
PolicyIDRemainderRejected ==
    LET segs == Split(TrimPrefix(arg, PoliciesPrefix), "/")
    IN  ~(Len(segs) = 3 /\ \A i \in 1..3 : segs[i] # << >>) => ret.err # Nil

\* C20 as stated: ParsePolicyID accepts every input namespace/name/version
\* whose three segments each satisfy their grammar and returns exactly those
\* segments, gives the same result when the input is prefixed with
\* "policies/", and rejects every input whose remainder does not have
\* exactly three non-empty segments.
C20_ParsePolicyIDAcceptsEveryValid ==
    fn = "ParsePolicyID" =>
        /\ IsPolicyID(Split(arg, "/")) => PolicyIDAccepted(Split(arg, "/"))
        /\ PolicyIDRemainderRejected

\* C20, amended: the same for every namespace other than "policies"; an
\* input policies/name/version loses its first segment as the prefix.
C20_ParsePolicyIDAcceptsOtherNamespaces ==
    fn = "ParsePolicyID" =>
        /\ IsPolicyID(Split(arg, "/")) /\ Split(arg, "/")[1] # StrPolicies =>
               PolicyIDAccepted(Split(arg, "/"))
        /\ PolicyIDRemainderRejected

\* "a/a/1.0.0" was parsed as (a, a, 1.0.0), and "policies/a/a/1.0.0" is too
C20_Witness ==
    /\ fn = "ParsePolicyID"
    /\ arg = <<"a", "/", "a", "/", "1", ".", "0", ".", "0">>
    /\ ret = PolicyID(<<"a">>, <<"a">>, Str1_0_0, Nil)
    /\ ParsePolicyID(<<"p", "o", "l", "i", "c", "i", "e", "s", "/", "a", "/", "a", "/", "1", ".", "0", ".", "0">>) = ret

\* "policies/a/1.0.0", three valid segments, was rejected for its count
C20_WitnessPoliciesNamespace ==
    /\ fn = "ParsePolicyID"
    /\ arg = <<"p", "o", "l", "i", "c", "i", "e", "s", "/", "a", "/", "1", ".", "0", ".", "0">>
    /\ ret.err = Errorf("invalid policy ID format")

\* this step is a call of an operation that returns a validation error
RejectedCall == applied' # applied /\ fn' \in Operations /\ ret' # Nil

\* C11: when an operation (Modules.Get/GetByID/List/Search/GetLatest,
\* Providers.Get/GetVersion/GetVersionID/ListDocsV2, Policies.Get/GetByID/
\* Search) rejects its input with a validation error, no HTTP attempt is
\* made (no request is started, no attempt counted, no token taken) and the
\* rate limiter's token count and last-refill time are left unchanged; the
\* caller has the validation error as its result.
C11_RejectedCallMakesNoAttempt ==
    [][ RejectedCall =>
            /\ tokens' = tokens
            /\ elapsed' = elapsed
            /\ attempt' = attempt
            /\ consumed' = consumed
            /\ pc' = pc
            /\ \A p \in Requesters : pc[p] = "idle" /\ result'[p] = ret'
      ]_vars

\* Modules.Get was rejected for its namespace while the limiter was one
\* token short, and the token count is still what it was
C11_Witness ==
    \E p \in Requesters :
        /\ fn = "ModulesService.Get"
        /\ arg.namespace = <<"a", "@">> /\ arg.name = <<"a">>
        /\ IsValidationError(ret)
        /\ result[p] = ret
        /\ pc[p] = "idle"
        /\ tokens < maxTokens

\* Policies.GetByID goes on to its request with a valid identifier
C11_WitnessAccepted ==
    \E p \in Requesters :
        /\ fn = "PoliciesService.GetByID"
        /\ ret = Nil
        /\ attempt[p] = 1

\* namespace, name and version ("" when absent) make a valid provider
\* reference; the namespace "providers" is left aside, it reads as a prefix
IsProviderRef(namespace, name, version) ==
    /\ IsName(namespace) /\ namespace # StrProviders
    /\ IsProviderName(name)
    /\ ValidateProviderVersion(version) = Nil

\* ExtractProviderInfo accepted the input as this provider reference
ProviderRefReturned(namespace, name, version) ==
    ret = ProviderInfo(namespace, name, version, Nil)

\* the input is prefix followed by segs joined with '/'
WrittenAs(prefix, segs) == arg = prefix \o Join(segs, "/")

\* the accepted forms of C21 that have no /versions/ suffix:
\* [registry://][providers/]namespace/name[/version]
PlainFormsAccepted ==
    \A prefix \in {<< >>, RegistryPrefix, ProvidersPrefix} :
        LET segs == Split(From(arg, Len(prefix)), "/")
        IN  HasPrefix(arg, prefix) =>
              /\ Len(segs) = 2 /\ IsProviderRef(segs[1], segs[2], << >>) =>
                     ProviderRefReturned(segs[1], segs[2], << >>)
              /\ Len(segs) = 3 /\ segs[3] # << >>
                     /\ IsProviderRef(segs[1], segs[2], segs[3]) =>
                     ProviderRefReturned(segs[1], segs[2], segs[3])

\* the rejections of C21, on the input without its prefix and surrounding
\* white space: fewer than two segments, an invalid namespace, and for
\* two or three segments an invalid provider name or an invalid version
InvalidRejected ==
    LET segs == Split(TrimSpace(TrimPrefix(TrimPrefix(arg, RegistryPrefix),
                                           ProvidersPrefix)), "/")
    IN  \/ Len(segs) < 2
        \/ ~IsName(segs[1])
        \/ Len(segs) \in {2, 3} /\ ~IsProviderName(segs[2])
        \/ Len(segs) = 3 /\ ValidateProviderVersion(segs[3]) # Nil
        => ret.err # Nil

\* C21: ParseProviderURI (ExtractProviderInfo) accepts namespace/name,
\* namespace/name/version, the registry:// prefixed forms, the providers/
\* prefixed forms and the providers/ form with a trailing
\* /versions/<version> suffix, and returns the namespace, the name and the
\* version written in the input (empty version when absent); an input with
\* fewer than two segments, an invalid namespace, a non-lowercase provider
\* name or an invalid version is rejected.
C21_ProviderURIForms ==
    fn = "ExtractProviderInfo" =>
        /\ PlainFormsAccepted
        /\ LET segs == Split(From(arg, Len(ProvidersPrefix)), "/")
           IN  /\ HasPrefix(arg, ProvidersPrefix)
               /\ Len(segs) = 4 /\ segs[3] = StrVersions /\ segs[4] # << >>
               /\ IsProviderRef(segs[1], segs[2], segs[4])
               => ProviderRefReturned(segs[1], segs[2], segs[4])
        /\ InvalidRejected

\* What holds of C21: the forms without the suffix, the rejections, and the
\* suffix in the form namespace/providers/name/versions/<version>.
C21_ProviderURIFormsOfTheCode ==
    fn = "ExtractProviderInfo" =>
        /\ PlainFormsAccepted
        /\ LET segs == Split(arg, "/")
           IN  /\ Len(segs) = 5 /\ segs[2] = StrProviders /\ segs[4] = StrVersions
               /\ IsProviderRef(segs[1], segs[3], segs[5])
               => ProviderRefReturned(segs[1], segs[3], segs[5])
        /\ InvalidRejected

\* "providers/a/a/versions/1.0.0" was rejected: "versions" read as version
C21_SuffixRejected ==
    /\ fn = "ExtractProviderInfo"
    /\ arg = ProvidersPrefix \o <<"a", "/", "a", "/">> \o StrVersions \o <<"/">> \o Str1_0_0
    /\ ret.err = Errorf("invalid semantic version format")

\* C28 (first half): for every non-empty version string other than
\* "latest", ValidateProviderVersion accepts it iff isValidVersion accepts it.
C28_VersionValidatorsAgree ==
    fn = "ValidateProviderVersion" /\ arg # << >> /\ arg # Latest =>
        (ret = Nil <=> isValidVersion(arg))

\* C28: The identifier parsers and the get operations agree on what is
\* valid: for every non-empty version string other than "latest",
\* ValidateProviderVersion accepts it iff isValidVersion (used by
\* Modules.Get and Policies.Get) accepts it, so an identifier accepted by
\* ParseModuleID or ParsePolicyID is never rejected with a validation error
\* by Modules.GetByID or Policies.GetByID.
C28_ParsedIDIsNotRejected ==
    /\ fn = "ModulesService.GetByID" /\ ParseModuleID(arg.id).err = Nil => ret = Nil
    /\ fn = "PoliciesService.GetByID" /\ ParsePolicyID(arg.id).err = Nil => ret = Nil

\* Modules.GetByID rejected "a/a/a/1.0.0-a.1", which ParseModuleID accepts
C28_ParsedIDRejected ==
    /\ fn = "ModulesService.GetByID"
    /\ ParseModuleID(arg.id).err = Nil
    /\ ParseModuleID(arg.id).version = Str1_0_0 \o <<"-", "a", ".", "1">>
    /\ ret = ValidationError("version")
    /\ pc["c1"] = "idle" /\ attempt["c1"] = 0

\* floor(refillRate * elapsed / refillPeriod)
ExactTokensToAdd(r) == (r.refillRate * r.elapsed) \div r.refillPeriod

\* the refill of the claim, with tokensToAdd = toAdd in its partial branch
RefilledBy(toAdd) ==
    IF arg.elapsed >= arg.refillPeriod
    THEN ret = [tokens |-> arg.maxTokens, elapsed |-> 0]
    ELSE IF toAdd > 0
    THEN ret = [tokens |-> min(arg.tokens + toAdd, arg.maxTokens), elapsed |-> 0]
    ELSE ret = [tokens |-> arg.tokens, elapsed |-> arg.elapsed]

\* C29: On every access the lazy refill does exactly this: if elapsed >=
\* refillPeriod then tokens = maxTokens and lastRefill = now; otherwise, with
\* tokensToAdd = floor(refillRate * elapsed / refillPeriod), if tokensToAdd > 0
\* then tokens = min(tokens + tokensToAdd, maxTokens) and lastRefill = now,
\* and if tokensToAdd = 0 neither tokens nor lastRefill changes.
C29_RefillAddsExactFloor ==
    fn = "refill" => RefilledBy(ExactTokensToAdd(arg))

\* What holds of C29: the three cases, with tokensToAdd the floor or one
\* less than it, and the floor for the limiter of the client model.
C29_RefillAddsFloorOrOneLess ==
    fn = "refill" =>
        /\ RefilledBy(ExactTokensToAdd(arg)) \/ RefilledBy(ExactTokensToAdd(arg) - 1)
        /\ arg.refillRate = refillRate /\ arg.refillPeriod = refillPeriod =>
               RefilledBy(ExactTokensToAdd(arg))

\* 100 tokens a period, accessed 29/100 of the period after lastRefill
\* with no token left: 28 tokens
C29_OneTokenShort ==
    /\ fn = "refill"
    /\ arg.refillRate = 100 /\ arg.refillPeriod = 100 /\ arg.elapsed = 29 /\ arg.tokens = 0
    /\ ret = [tokens |-> 28, elapsed |-> 0]

\* the caller's Wait has returned nil
WaitReturnedOk == pc[Solo] = "idle" /\ result[Solo] = Nil

\* the caller's Wait has returned ctx.Err()
WaitReturnedCancelled == pc[Solo] = "idle" /\ result[Solo] = <<ContextCanceled>>

\* the step by which the caller leaves the select of Wait
LeavesSelect == pc[Solo] = "WaitSelect" /\ pc'[Solo] # "WaitSelect"

\* C30: Wait repeats TryAcquire and sleep until success or cancellation: a
\* call that is the limiter's only caller and whose cancellation never fires
\* eventually returns ok having consumed exactly one token, and a call whose
\* cancellation fires while it sleeps returns cancelled without waiting for
\* the next token.
C30_WaitReturns ==
    /\ (pc[Solo] # "idle") ~> ((WaitReturnedOk /\ consumed[Solo] = 1) \/ cancelled[Solo])
    /\ [][WaitReturnedOk' => consumed'[Solo] = 1]_vars
    /\ [][Sleeping(Solo) /\ woke[Solo] = "" /\ ~cancelled[Solo] /\ cancelled'[Solo]
              => woke'[Solo] = "ctx"]_vars
    /\ [][woke[Solo] = "ctx" /\ LeavesSelect
              => WaitReturnedCancelled' /\ tokens' = tokens /\ consumed'[Solo] = 0]_vars
    /\ (woke[Solo] = "ctx") ~> WaitReturnedCancelled

\* Wait has returned cancelled from its sleep: no token is there yet
C30_Witness ==
    /\ WaitReturnedCancelled
    /\ consumed[Solo] = 0
    /\ tokens = 0
    /\ TryAcquire(tokens, elapsed).ok = FALSE

\* Wait is about to return ok after a sleep: the timer has fired and the token is due
C30_WitnessWoken ==
    /\ pc[Solo] = "Wait"
    /\ tokens = 0
    /\ ~cancelled[Solo]
    /\ TryAcquire(tokens, elapsed).ok
    /\ elapsed < refillPeriod

(***************************************************************************)
(* C22, C23: the order of the ranked results.                              *)
(***************************************************************************)
\* a search that ranks has returned its list
RankedReturned ==
    /\ fn \in {"PoliciesService.Search", "ModulesService.SearchWithRelevance"}
    /\ ret.pc = "returned"
    /\ ret.err = Nil

\* the results of the call before the sort, in the order of the fetch
Unsorted ==
    IF fn = "PoliciesService.Search" THEN PolicySearchResults(ret.all, arg.query)
    ELSE ModuleSearchResults(ret.all, arg.query)

\* some results of equal relevance have changed places
TiesReordered ==
    /\ RankedReturned
    /\ \E unsorted \in {Unsorted} : ret.value \notin sortSliceStable(unsorted)

\* C22: the list returned by Modules.SearchWithRelevance or Policies.Search
\* is the stable sort of the fetched list: results of equal relevance keep
\* the order in which they were fetched, so the input list and the query
\* determine the output order.
C22_RanksStably ==
    RankedReturned => \E unsorted \in {Unsorted} : ret.value \in sortSliceStable(unsorted)

\* C22, for the lists sort.Slice sorts by insertion: up to maxInsertion
\* results are returned in the stable order.
C22_RanksStablyUpToTwelve ==
    RankedReturned /\ Len(ret.value) <= maxInsertion =>
        \E unsorted \in {Unsorted} : ret.value \in sortSliceStable(unsorted)

\* the policy or module of the result at position k of the returned list
Ranked(k) ==
    IF fn = "PoliciesService.Search" THEN ret.value[k].Policy ELSE ret.value[k].Module

\* thirteen results are returned with the third fetched behind the fifth,
\* which has its relevance
C22_ThirdBehindFifth ==
    /\ TiesReordered
    /\ Len(ret.value) = 13
    /\ \E i, j \in 1..13 :
           /\ i < j
           /\ ret.value[i].Relevance = ret.value[j].Relevance
           /\ ret.all[3] = Ranked(j)
           /\ ret.all[5] = Ranked(i)

\* C23: every list returned by Modules.SearchWithRelevance or
\* Policies.Search has relevance non-increasing from the first to the last
\* element, and every relevance in it is >= 0.
C23_RelevanceNonIncreasing ==
    RankedReturned =>
        /\ \A i \in 1..(Len(ret.value) - 1) :
               ret.value[i].Relevance >= ret.value[i + 1].Relevance
        /\ \A i \in 1..Len(ret.value) : ret.value[i].Relevance >= 0

\* a list of three or more results is returned whose fetch order was not
\* the order of relevance
C23_Witness ==
    /\ RankedReturned
    /\ Len(ret.value) >= 3
    /\ ret.value[1].Relevance > ret.value[Len(ret.value)].Relevance
    /\ \E unsorted \in {Unsorted} :
           \E i \in 1..(Len(unsorted) - 1) :
               unsorted[i].Relevance < unsorted[i + 1].Relevance

(***************************************************************************)
(* C24, C25: the traversal of all pages.                                   *)
(***************************************************************************)
\* a call that traverses all pages is under way or has returned
InTraversal ==
    \/ fn = "PoliciesService.Search"
    \/ fn = "ProvidersService.ListDocsV2" /\ arg.opts.Page = 0

\* the call has left its loop
LoopLeft == ret.pc \in {"break", "returned"}

\* the remote's answer to the k-th fetch of the call
Fetched(k) == Respond(arg.source, ret.fetches[k])

\* the source of three pages of 50, 50 and 10 items, the last without a next
IsFiftyFiftyTen(source) ==
    /\ Len(source) = 3
    /\ \A n \in 1..3 : source[n].err = Nil
    /\ <<Len(source[1].Data), Len(source[2].Data), Len(source[3].Data)>> = <<50, 50, 10>>
    /\ <<source[1].NextPage, source[2].NextPage, source[3].NextPage>> = <<2, 3, 0>>

\* what the traversal of the source of 50, 50 and 10 has when it leaves the
\* loop: three fetches, the 110 items in the order of the fetch, none twice
HasFiftyFiftyTen ==
    /\ ret.fetches = <<1, 2, 3>>
    /\ ret.all = arg.source[1].Data \o arg.source[2].Data \o arg.source[3].Data
    /\ Len(ret.all) = 110
    /\ \A i, j \in 1..Len(ret.all) : i # j => ret.all[i] # ret.all[j]

\* C24: the traversal of all pages (Policies.Search, Providers.ListDocsV2
\* with Page = 0) fetches nothing after a page that reports no next page or
\* has no items, and on the pages of 50, 50 and 10 items it makes exactly 3
\* fetches and accumulates exactly the 110 items, in fetch order, none twice.
C24_StopsAtLastOrEmptyPage ==
    InTraversal =>
        /\ \A k \in 1..(Len(ret.fetches) - 1) :
               Fetched(k).NextPage # 0 /\ Len(Fetched(k).Data) > 0
        /\ IsFiftyFiftyTen(arg.source) /\ LoopLeft /\ ret.fetches # << >>
               => HasFiftyFiftyTen

\* C24 as the code has it: ListDocsV2 stops at a page without items,
\* Policies.Search only at a page without next page.
C24_StopsAtLastPage ==
    InTraversal =>
        /\ \A k \in 1..(Len(ret.fetches) - 1) :
               /\ Fetched(k).NextPage # 0
               /\ fn = "ProvidersService.ListDocsV2" => Len(Fetched(k).Data) > 0
        /\ IsFiftyFiftyTen(arg.source) /\ LoopLeft /\ ret.fetches # << >>
               => HasFiftyFiftyTen

\* Policies.Search has fetched a page after a page without items
C24_FetchedAfterEmptyPage ==
    /\ fn = "PoliciesService.Search"
    /\ \E k \in 1..(Len(ret.fetches) - 1) : Len(Fetched(k).Data) = 0

\* the traversals of the pages of 50, 50 and 10 items have returned
C24_FiftyFiftyTenReturned ==
    /\ InTraversal
    /\ IsFiftyFiftyTen(arg.source)
    /\ ret.pc = "returned"
    /\ ret.err = Nil
    /\ HasFiftyFiftyTen

TraversalReturned == InTraversal /\ ret.pc = "returned"

\* C25: a traversal of all pages never fetches more than 100 pages in one
\* call, and it returns, whatever next pages the remote names.
C25_AtMostHundredFetches ==
    /\ [](InTraversal => Len(ret.fetches) <= 100)
    /\ (InTraversal ~> TraversalReturned)

\* a traversal has returned after 100 fetches, of pages that name each other
C25_Witness ==
    /\ TraversalReturned
    /\ Len(ret.fetches) = 100
    /\ \E k \in 2..100 : ret.fetches[k] < ret.fetches[k - 1]

(***************************************************************************)
(* C26: the fields of the client shared by concurrent callers.             *)
(***************************************************************************)
\* p is at a read of c.baseURL
ReadsBaseURL(p) ==
    ret.at[p] \in {"GetBaseURL locked", "Download locked", "Download verified"}

\* q is at the write of c.baseURL
WritesBaseURL(q) == ret.at[q] = "SetBaseURL locked"

\* C26: no operation reads the base URL of the client while another caller
\* can write it: the reader of c.baseURL holds c.mu, so that no caller of
\* SetBaseURL is at its write at the same time.
C26_BaseURLReadUnderLock ==
    \A p \in Callers :
        ReadsBaseURL(p) =>
            /\ p \in ret.mu.readers
            /\ \A q \in Callers : ~WritesBaseURL(q)

\* C26 for the readers that take the lock, GetBaseURL and newRequest: they
\* hold c.mu and no caller is at the write; and a writer excludes writers.
C26_LockedReadsExcludeWrite ==
    /\ \A p \in Callers :
           ret.at[p] \in {"GetBaseURL locked", "Download locked"} =>
               /\ p \in ret.mu.readers
               /\ \A q \in Callers : ~WritesBaseURL(q)
    /\ \A p, q \in Callers : WritesBaseURL(p) /\ WritesBaseURL(q) => p = q
    /\ \A p \in Callers :
           ret.done[p] = "GetBaseURL" /\ ret.err[p] = Nil => ret.value[p] \in ret.assigned

\* Download has read one word of c.baseURL while SetBaseURL has written one
C26_ReadDuringWrite ==
    \E p, q \in Callers :
        /\ ret.at[p] = "Download verified" /\ ret.words[p] # {}
        /\ WritesBaseURL(q) /\ ret.words[q] # {} /\ ret.words[q] # Words

\* Download has returned a URL made of the pointer of one base URL and the
\* length of another
C26_TornBaseURL ==
    \E p \in Callers :
        /\ ret.done[p] = "Download"
        /\ ret.err[p] = Nil
        /\ ret.value[p] \notin ret.assigned

(***************************************************************************)
(* C27: the states of a request.                                           *)
(***************************************************************************)
Attempting(p) == pc[p] \in {"InFlight", "Aborted"}
InBackoff(p) == pc[p] = "Backoff"
InRetryLoop(p) == pc[p] = "Do" \/ Attempting(p) \/ InBackoff(p)
Terminal(p) == inRequest[p] /\ pc[p] = "idle" /\ result[p] # Pending

\* the terminal states an attempt can end the request in, by what CheckRetry
\* said of the attempt's outcome and by the attempts made
Success(p) == ~CheckRetry(cancelled[p], lastResp[p]).retry /\ result[p] = Nil
FatalFailure(p) == ~CheckRetry(cancelled[p], lastResp[p]).retry /\ result[p] # Nil
RetriesExhausted(p) ==
    /\ CheckRetry(cancelled[p], lastResp[p]).retry
    /\ attempt[p] = MaxRetries + 1
    /\ result[p] # Nil

\* a step of the request of p through its states
RequestStep(p) ==
    \* before an attempt: the attempt, and nothing else
    /\ pc[p] = "Do" =>
           \/ pc'[p] = "Do"
           \/ Attempting(p)' /\ attempt'[p] = attempt[p] + 1
    \* Attempting: Backoff, while the retry budget lasts, or a terminal state
    /\ Attempting(p) =>
           \/ pc'[p] = pc[p]
           \/ InBackoff(p)' /\ attempt[p] <= MaxRetries /\ result'[p] = Pending
           \/ Terminal(p)' /\ (Success(p)' \/ FatalFailure(p)' \/ RetriesExhausted(p)')
    \* Backoff: another attempt, or the cancellation
    /\ InBackoff(p) =>
           \/ pc'[p] = "Backoff"
           \/ pc'[p] = "Do" /\ result'[p] = Pending
           \/ /\ Terminal(p)'
              /\ cancelled[p]
              /\ result'[p] = RequestError(<<ContextCanceled>>)
    \* finitely many attempts, none after a terminal state
    /\ attempt'[p] > attempt[p] => pc[p] = "Do" /\ result[p] = Pending
    /\ attempt'[p] <= MaxRetries + 1
    \* the terminal state stays until the next request
    /\ Terminal(p) =>
           \/ Terminal(p)' /\ result'[p] = result[p] /\ attempt'[p] = attempt[p]
           \/ pc'[p] = "Wait" /\ result'[p] = Pending /\ attempt'[p] = 0

\* C27: every request goes from Attempting to Success, FatalFailure or
\* RetriesExhausted, or to Backoff and from there to another attempt or, on
\* cancellation, to its end; it makes at most MaxRetries + 1 attempts, none
\* after a terminal state, and it reaches a terminal state.
C27_RequestStates ==
    /\ [][\A p \in Callers : RequestStep(p)]_vars
    /\ \A p \in Callers : InRetryLoop(p) ~> Terminal(p)

\* a request has ended with its retries exhausted, after backoffs
C27_Witness ==
    /\ Terminal(Solo)
    /\ RetriesExhausted(Solo)
    /\ attempt[Solo] = MaxRetries + 1

\* a request has ended in its backoff, cancelled
C27_WitnessCancelled ==
    /\ Terminal(Solo)
    /\ result[Solo] = RequestError(<<ContextCanceled>>)
    /\ attempt[Solo] <= MaxRetries

====
